---- MODULE Spec2Model ----
(***************************************************************************)
(* Model of the origin metadata cache of fs/dbmeta: the item repository    *)
(* (origin_cache_item.go), the cache instance with its read/write guard    *)
(* (origin_cache.go) and the SQL statements the repository issues through  *)
(* gorm against the SQLite file.                                           *)
(*                                                                         *)
(* Paths, names and error texts are sequences of characters or words, so   *)
(* that filepath.Split and strings.Contains are computed, not assumed.     *)
(* The table is a bag of rows: the table has no primary key, so only the   *)
(* unique index idx_u_item keeps two rows from sharing a key.              *)
(***************************************************************************)
EXTENDS Integers, Sequences, FiniteSets, Bags, TLC

VARIABLES
    originCache,        \* the package variable: 0 (nil) or the instance it points to,
                        \* instances numbered in the order they are constructed
    originCacheOnce,    \* the sync.Once: [done, m: 0 or the holder of its mutex]
    oc,         \* the fields db and tracer of the instance: 0 (nil) or the handle
                \* and tracer of the n-th OpenDB
    opened,     \* number of handles OpenDB has returned
    store,      \* the SQLite file behind oc.db: schema objects and rows of item_list
    rwLock,     \* oc.rwLock: [writer: 0 or the holder, readers: set of holders]
    proc,       \* per caller goroutine: the instance it got from GetOriginCache
                \* (oc), whether an Init of its own returned nil (inited), the
                \* call it is in, where it stands (pc) and, once it has one, the
                \* line of its return statement (ret)
    now,        \* time.Now().Unix()
    calls       \* number of repository calls started so far

vars ==
    <<originCache, originCacheOnce, oc, opened, store, rwLock, proc, now, calls>>

\* the singleton and its handle
instance == <<originCache, originCacheOnce, oc, opened>>

----------------------------------------------------------------------------
(* Bounds of the model *)

MaxTime == 2
MaxCalls == 2
MaxOpens == 2

Procs == {1, 2}

----------------------------------------------------------------------------
(* Values *)

Sep == "/"

EntryDirectory == "directory"
EntryObject == "object"

\* error texts, as sequences of words; <<>> is a nil error
NoError == <<>>
ErrorOfAlreadyExist == <<"already", "exists">>
ErrorOfUniqueKeyExist == <<"UNIQUE", "constraint", "failed">>

ErrUniqueFailed ==
    <<"UNIQUE", "constraint", "failed", "item_list.parent_path", "item_list.name">>
ErrIndexExists == <<"index", "idx_u_item", "already", "exists">>
ErrNoConflictTarget ==
    <<"ON", "CONFLICT", "clause", "does", "not", "match", "any", "PRIMARY", "KEY",
      "or", "UNIQUE", "constraint">>
ErrNoSuchTable == <<"no", "such", "table", "item_list">>
ErrNoSuchColumn == <<"no", "such", "column">>
ErrMissingWhereClause == <<"WHERE", "conditions", "required">>
ErrRecordNotFound == <<"record", "not", "found">>
ErrPrimaryKeyRequired == <<"primary", "key", "required">>
ErrStore == <<"context", "deadline", "exceeded">>
ErrOpenFailed == <<"unable", "to", "open", "database", "file">>
ErrUnmarshal == <<"invalid", "character">>

\* strings.Contains(s, sub)
Contains(s, sub) ==
    \E i \in 0..(Len(s) - Len(sub)) : SubSeq(s, i + 1, i + Len(sub)) = sub

\* filepath.Split(path): dir is everything up to and including the last
\* separator, file is the rest
LastSep(path) ==
    LET idx == {i \in 1..Len(path) : path[i] = Sep}
    IN  IF idx = {} THEN 0 ELSE CHOOSE i \in idx : \A j \in idx : j <= i

Split(path) ==
    [dir  |-> SubSeq(path, 1, LastSep(path)),
     file |-> SubSeq(path, LastSep(path) + 1, Len(path))]

\* a context is the time of its deadline; context.Background() has none
NoDeadline == 0

\* context.WithTimeout(ctx, d) called at time t: the earlier of ctx's deadline
\* and t + d
WithTimeout(ctx, t, d) ==
    IF ctx = NoDeadline \/ t + d < ctx THEN t + d ELSE ctx

\* whether ctx is done at time t
Expired(ctx, t) == ctx # NoDeadline /\ t >= ctx

\* the budgets the operations give to WithTimeout, in seconds
DefaultTimeout == 3
GetAllTimeout == 60

\* the zero Info, and an info blob: <<>> (no bytes), <<"junk">> (bytes that are
\* no JSON document) or <<"Info", size, fingerprint>> (the JSON document of an Info)
ZeroInfo == [Size |-> 0, Fingerprint |-> ""]

InfoBlob(size, fingerprint) == <<"Info", size, fingerprint>>

\* json.Unmarshal(item.Info, &info)
Unmarshal(blob) ==
    IF Len(blob) = 3 /\ blob[1] = "Info"
    THEN [err |-> NoError, info |-> [Size |-> blob[2], Fingerprint |-> blob[3]]]
    ELSE [err |-> ErrUnmarshal, info |-> ZeroInfo]

\* the columns of item_list, by the gorm tags of Item
ColumnNames ==
    {"parent_path", "name", "type", "size", "state", "sha1",
     "created_at", "updated_at", "info"}

\* a Create that stores the key of the joined path: parent_path is given its
\* trailing separator when it lacks one
CreateValuesSplit(item, t) ==
    [parent_path |-> IF Len(item.ParentPath) > 0
                        /\ item.ParentPath[Len(item.ParentPath)] # Sep
                     THEN item.ParentPath \o <<Sep>> ELSE item.ParentPath,
     name        |-> item.Name,
     type        |-> item.Type,
     size        |-> item.Size,
     state       |-> item.State,
     sha1        |-> item.Sha1,
     created_at  |-> IF item.CreatedAt = 0 THEN t ELSE item.CreatedAt,
     updated_at  |-> IF item.UpdatedAt = 0 THEN t ELSE item.UpdatedAt,
     info        |-> item.Info]

\* the row gorm's Create writes for an Item at time t: autoCreateTime and
\* autoUpdateTime fill a zero created_at / updated_at
CreateValues(item, t) ==
    [parent_path |-> item.ParentPath,
     name        |-> item.Name,
     type        |-> item.Type,
     size        |-> item.Size,
     state       |-> item.State,
     sha1        |-> item.Sha1,
     created_at  |-> IF item.CreatedAt = 0 THEN t ELSE item.CreatedAt,
     updated_at  |-> IF item.UpdatedAt = 0 THEN t ELSE item.UpdatedAt,
     info        |-> item.Info]

----------------------------------------------------------------------------
(* The store: SQLite statements as gorm builds them *)

FreshFile == [hasTable |-> FALSE, hasIndex |-> FALSE, rows |-> EmptyBag]

Rows(st) == BagToSet(st.rows)

KeyOf(r) == <<r.parent_path, r.name>>

\* WHERE parent_path=? and name=?
Matching(st, dir, file) ==
    {r \in Rows(st) : r.parent_path = dir /\ r.name = file}

\* the bag b restricted to the rows of S
Restrict(b, S) == [r \in S |-> b[r]]

\* whether a bag of rows satisfies the unique index on (parent_path, name)
UniqueKeys(b) ==
    \A r1 \in BagToSet(b) :
        /\ b[r1] = 1
        /\ \A r2 \in BagToSet(b) : KeyOf(r1) = KeyOf(r2) => r1 = r2

\* SET col = val, ... on one row
Assign(r, m) == [c \in DOMAIN r |-> IF c \in DOMAIN m THEN m[c] ELSE r[c]]

\* the rows S of bag b after SET m, each as often as before
RECURSIVE AssignAll(_, _, _)
AssignAll(b, S, m) ==
    IF S = {} THEN EmptyBag
    ELSE LET r == CHOOSE x \in S : TRUE
         IN  [x \in {Assign(r, m)} |-> b[r]] (+) AssignAll(b, S \ {r}, m)

\* CREATE TABLE IF NOT EXISTS item_list (...)
ExecCreateTable(st) ==
    [err |-> NoError, store |-> [st EXCEPT !.hasTable = TRUE]]

\* CREATE UNIQUE INDEX idx_u_item ON item_list (parent_path, name)
ExecCreateUniqueIndex(st) ==
    IF ~st.hasTable THEN [err |-> ErrNoSuchTable, store |-> st]
    ELSE IF st.hasIndex THEN [err |-> ErrIndexExists, store |-> st]
    ELSE IF ~UniqueKeys(st.rows) THEN [err |-> ErrUniqueFailed, store |-> st]
    ELSE [err |-> NoError, store |-> [st EXCEPT !.hasIndex = TRUE]]

\* DELETE FROM item_list WHERE parent_path=? and name=?
SqlDelete(st, dir, file) ==
    IF ~st.hasTable THEN [err |-> ErrNoSuchTable, store |-> st]
    ELSE [err   |-> NoError,
          store |-> [st EXCEPT !.rows =
                        Restrict(st.rows, Rows(st) \ Matching(st, dir, file))]]

\* UPDATE item_list SET ... WHERE parent_path=? and name=?
\* (a map given to Updates on a bare Table has no schema: updated_at is not
\* refreshed); a statement that fails changes nothing
SqlUpdate(st, dir, file, m) ==
    LET hit  == Matching(st, dir, file)
        rows == Restrict(st.rows, Rows(st) \ hit) (+) AssignAll(st.rows, hit, m)
    IN  IF ~st.hasTable THEN [err |-> ErrNoSuchTable, store |-> st]
        ELSE IF ~(DOMAIN m \subseteq ColumnNames)
             THEN [err |-> ErrNoSuchColumn, store |-> st]
        ELSE IF st.hasIndex /\ ~UniqueKeys(rows)
             THEN [err |-> ErrUniqueFailed, store |-> st]
        ELSE [err |-> NoError, store |-> [st EXCEPT !.rows = rows]]

\* INSERT INTO item_list (...) VALUES (...)
\*   ON CONFLICT (parent_path, name) DO UPDATE SET ...
SqlInsertOnConflict(st, row, m) ==
    LET hit == Matching(st, row.parent_path, row.name)
    IN  IF ~st.hasTable THEN [err |-> ErrNoSuchTable, store |-> st]
        ELSE IF ~st.hasIndex THEN [err |-> ErrNoConflictTarget, store |-> st]
        ELSE IF hit = {}
             THEN [err   |-> NoError,
                   store |-> [st EXCEPT !.rows = st.rows (+) SetToBag({row})]]
        ELSE [err   |-> NoError,
              store |-> [st EXCEPT !.rows =
                            Restrict(st.rows, Rows(st) \ hit)
                                (+) AssignAll(st.rows, hit, m)]]

\* gorm's Delete callback: a delete with no WHERE clause is not run
\* (AllowGlobalUpdate is not set by OpenDB)
SqlDeleteNoWhere(st) == [err |-> ErrMissingWhereClause, store |-> st]

\* SELECT * FROM item_list WHERE parent_path=? and name=? ORDER BY ... LIMIT 1
SqlFirst(st, dir, file) ==
    LET hit == Matching(st, dir, file)
    IN  IF ~st.hasTable THEN [err |-> ErrNoSuchTable, rows |-> {}]
        ELSE IF hit = {} THEN [err |-> ErrRecordNotFound, rows |-> {}]
        ELSE [err |-> NoError, rows |-> hit]

\* the bags that lack k of the rows of b
RECURSIVE LeaveOut(_, _)
LeaveOut(b, k) ==
    IF k = 0 THEN {b}
    ELSE UNION {LeaveOut(b (-) SetToBag({r}), k - 1) : r \in BagToSet(b)}

\* FindInBatches(&TempList, batchSize, fc): the possible outcomes. Batches are
\* read with ORDER BY <primary key> LIMIT batchSize; a batch shorter than
\* batchSize ends the loop, a full batch needs the primary key of its last row
\* to continue, and Item has none. Which rows make up a full batch is left
\* open
FindInBatches(st, batchSize) ==
    IF ~st.hasTable THEN {[err |-> ErrNoSuchTable, rows |-> EmptyBag]}
    ELSE IF BagCardinality(st.rows) < batchSize
         THEN {[err |-> NoError, rows |-> st.rows]}
    ELSE {[err |-> ErrPrimaryKeyRequired, rows |-> b] :
            b \in LeaveOut(st.rows, BagCardinality(st.rows) - batchSize)}

\* a statement that the store may fail to run (I/O error, deadline exceeded)
Attempt(fail, st, res) ==
    IF fail THEN [err |-> ErrStore, store |-> st] ELSE res

\* whether a statement run under ctx at time t can fail that way: it may when
\* ctx is live, it does when ctx is done
Failures(ctx, t) == IF Expired(ctx, t) THEN {TRUE} ELSE BOOLEAN

----------------------------------------------------------------------------
(* gorm statements and the trace plugin *)

startTime == "_start_time"

\* the *gorm.DB the callbacks of one statement are run on: the statement text
\* and its values, the error and the number of rows affected, and the
\* settings of the instance
NewStatement(sql, values) ==
    [SQL |-> sql, Vars |-> values, Error |-> NoError, RowsAffected |-> 0,
     Settings |-> <<>>]

\* db.InstanceSet(key, value), db.InstanceGet(key)
InstanceSet(db, key, value) ==
    [db EXCEPT !.Settings =
        [k \in DOMAIN db.Settings \cup {key} |->
            IF k = key THEN value ELSE db.Settings[k]]]

InstanceGet(db, key) ==
    IF key \in DOMAIN db.Settings
    THEN [value |-> db.Settings[key], isExist |-> TRUE]
    ELSE [value |-> <<>>, isExist |-> FALSE]

\* db.Dialector.Explain(sql, vars...): the text with its values
Explain(sql, values) == <<sql>> \o values

\* what gorm's own callbacks leave of a statement that ended with err and,
\* when it ran, touched n rows
Ran(db, err, n) ==
    [db EXCEPT !.Error = err, !.RowsAffected = IF err = NoError THEN n ELSE 0]

\* the hook registered before the statement; a time.Time is [Time |-> t]
before(db, t) == InstanceSet(db, startTime, [Time |-> t])

\* an after hook that reports a statement that touched no row as an error
afterAddError(db, t, site) ==
    [db  |-> [db EXCEPT !.Error = IF db.Error = NoError /\ db.RowsAffected = 0
                                  THEN ErrRecordNotFound ELSE db.Error],
     log |-> <<>>]

\* the hook registered after the statement, run at time t for the statement
\* called at line site: the db as it leaves it and the records it logs
after(db, t, site) ==
    LET ts == InstanceGet(db, startTime)
    IN  IF ~ts.isExist THEN [db |-> db, log |-> <<>>]
        ELSE IF "Time" \notin DOMAIN ts.value THEN [db |-> db, log |-> <<>>]
        ELSE [db  |-> db,
              log |-> <<[Timestamp   |-> t,
                         Stack       |-> site,
                         SQL         |-> Explain(db.SQL, db.Vars),
                         Rows        |-> db.RowsAffected,
                         CostSeconds |-> t - ts.value.Time,
                         ErrorStr    |-> <<>>]>>]

\* the callbacks of a statement as the processor runs them, one after the
\* other in the calling goroutine: the before hook, gorm's own callbacks and
\* the after hook
Execute(db, err, n, t, site) == after(Ran(before(db, t), err, n), t, site)

\* the statement texts
SqlCreateTable == "CREATE TABLE IF NOT EXISTS item_list"
SqlCreateIndex == "CREATE UNIQUE INDEX idx_u_item ON item_list (parent_path, name)"
SqlInsert == "INSERT INTO item_list ON CONFLICT (parent_path,name) DO UPDATE SET"
SqlDeleteWhere == "DELETE FROM item_list WHERE parent_path=? and name=?"
SqlDeleteAll == "DELETE FROM item_list"
SqlUpdateWhere == "UPDATE item_list SET WHERE parent_path=? and name=?"
SqlSelectFirst == "SELECT * FROM item_list WHERE parent_path=? and name=? LIMIT 1"
SqlSelectBatch == "SELECT * FROM item_list LIMIT 1000"

\* the number of rows of st among S
Count(st, S) == BagCardinality(Restrict(st.rows, S \cap Rows(st)))

----------------------------------------------------------------------------
(* The cache instance *)

\* OpenDB(path): gorm.Open and the tracer's Initialize
OpenDB(file) == [err |-> NoError, db |-> file]

\* createTable without its second statement
createTableWithoutIndex(st) ==
    LET t == ExecCreateTable(st)
    IN  [err |-> t.err, store |-> t.store]

\* an index statement whose every error is returned
createIndexErrorStrict(err) == err

\* what createTable returns when its index statement ends with err
createIndexError(err) ==
    IF err # NoError /\ Contains(err, ErrorOfAlreadyExist) THEN NoError ELSE err

createTable(st) ==
    LET t == ExecCreateTable(st)
        i == ExecCreateUniqueIndex(t.store)
    IN  IF t.err # NoError THEN [err |-> t.err, store |-> t.store]
        ELSE [err |-> createIndexError(i.err), store |-> i.store]

\* (oc *OriginCache) Init(path)
OcInit(file) ==
    LET o == OpenDB(file)
    IN  IF o.err # NoError THEN [err |-> o.err, store |-> file]
        ELSE createTable(o.db)

\* sync.RWMutex
FreeLock == [writer |-> 0, readers |-> {}]
CanLock(l) == l.writer = 0 /\ l.readers = {}
CanRLock(l) == l.writer = 0
Lock(l, p) == [l EXCEPT !.writer = p]
\* a return path that leaves the guard held
UnlockForgotten(l, p) == l
Unlock(l, p) == [l EXCEPT !.writer = 0]
RLock(l, p) == [l EXCEPT !.readers = @ \cup {p}]
RUnlock(l, p) == [l EXCEPT !.readers = @ \ {p}]

----------------------------------------------------------------------------
(* Inputs of the calls *)

ParentDirs == {<<"/">>}
Names == {<<"a">>, <<"b">>}

\* info payloads given with a directory entry and with an object entry
DirectoryBlobs == {<<>>, <<"junk">>}
ObjectBlobs == {<<"junk">>, InfoBlob(10, "h1"), InfoBlob(20, "f2")}

NewItem(d, n, t, b) ==
    [ParentPath |-> d, Name |-> n, Type |-> t, Size |-> 10, State |-> 0,
     Sha1 |-> IF t = EntryObject THEN "h1" ELSE "", CreatedAt |-> 0,
     UpdatedAt |-> 0, Info |-> b]

\* an entry whose parent_path lacks the trailing separator
UnsplitItem == NewItem(<<"/", "d">>, <<"a">>, EntryDirectory, <<>>)

Items ==
    {NewItem(d, n, EntryDirectory, b) :
        d \in ParentDirs, n \in Names, b \in DirectoryBlobs}
    \cup {NewItem(d, n, EntryObject, b) :
        d \in ParentDirs, n \in Names, b \in ObjectBlobs}
    \cup {UnsplitItem}

Paths == {<<"/", "a">>, <<"/", "b">>, <<"/", "d", "/", "a">>}

InfoMaps == {[state |-> 1], [name |-> <<"b">>], [colour |-> 1]}

\* the contexts callers pass. A live context has its deadline after the last
\* second of the run and before any default budget ends: no statement run
\* under it meets a done context. The other contexts are context.Background()
\* and one whose deadline is the last second of the run
LiveContexts == {MaxTime + 1}
Contexts == {NoDeadline, MaxTime}

\* the files Init may find under the directory it is given: none (a fresh file
\* is created), the file of an earlier run, and a file whose table was written
\* without the index
EarlierRows ==
    SetToBag({CreateValues(NewItem(<<"/">>, <<"a">>, EntryObject, InfoBlob(10, "h1")), 1),
              CreateValues(NewItem(<<"/">>, <<"b">>, EntryDirectory, <<>>), 1),
              CreateValues(UnsplitItem, 1)})

InitialFiles ==
    {FreshFile,
     [hasTable |-> TRUE, hasIndex |-> TRUE, rows |-> EarlierRows],
     [hasTable |-> TRUE, hasIndex |-> FALSE, rows |-> EarlierRows]}

ZeroItem ==
    [ParentPath |-> <<>>, Name |-> <<>>, Type |-> EntryDirectory, Size |-> 0,
     State |-> 0, Sha1 |-> "", CreatedAt |-> 0, UpdatedAt |-> 0, Info |-> <<>>]

----------------------------------------------------------------------------
(* NewFs of backend/hybridzfs: options, paths and the files under them *)

errLinksAndCopyLinks == <<"can't", "use", "-l/--links", "with", "-L/--copy-links">>
errLinksNeedsSuffix == <<"need", ".rclonelink", "suffix">>
ErrorIsFile == <<"is", "a", "file", "not", "a", "directory">>
ErrParseConfig == <<"couldn't", "parse", "config", "item">>
ErrLocalNewFs == <<"local", "NewFs", "failed">>
ErrNotExist == <<"no", "such", "file", "or", "directory">>

\* a configmap.Mapper holds strings; a key the mapper does not hold
Unset == "<unset>"
ConfigValues == {Unset, "true", "1", "false", "x"}

\* the conversion of a config string to bool
ParseBool(v) ==
    IF v \in {"true", "1"} THEN [err |-> NoError, value |-> TRUE]
    ELSE IF v \in {"false", "0"} THEN [err |-> NoError, value |-> FALSE]
    ELSE [err |-> ErrParseConfig, value |-> FALSE]

\* new(Options), by its two symlink fields
ZeroOptions == [FollowSymlinks |-> FALSE, TranslateSymlinks |-> FALSE]

\* configstruct.Set(m, opt): every key the mapper holds is parsed into its
\* field, in the order of the fields; the first value that does not parse ends
\* it with an error
Set(m) ==
    LET cl == ParseBool(m.copy_links)
        l  == ParseBool(m.links)
    IN  IF m.copy_links # Unset /\ cl.err # NoError
        THEN [err |-> cl.err, opt |-> ZeroOptions]
        ELSE IF m.links # Unset /\ l.err # NoError
        THEN [err |-> l.err,
              opt |-> [ZeroOptions EXCEPT !.FollowSymlinks =
                          m.copy_links # Unset /\ cl.value]]
        ELSE [err |-> NoError,
              opt |-> [FollowSymlinks    |-> m.copy_links # Unset /\ cl.value,
                       TranslateSymlinks |-> m.links # Unset /\ l.value]]

\* a root path: a base name, with or without the suffix ".rclonelink"
HasSuffix(root) == root.suffix
TrimSuffix(root) == [root EXCEPT !.suffix = FALSE]

\* the files of the machine: a directory d, a regular file f, a symlink l to
\* f, a symlink k to d, and a regular file named f.rclonelink; n is no file
NodeOf(root) ==
    IF root.suffix THEN (IF root.base = "f" THEN "file" ELSE "none")
    ELSE CASE root.base = "d" -> "dir"
           [] root.base = "f" -> "file"
           [] root.base = "l" -> "symlink"
           [] root.base = "k" -> "symlink"
           [] OTHER -> "none"

TargetOf(root) ==
    IF root.suffix THEN NodeOf(root)
    ELSE CASE root.base = "l" -> "file"
           [] root.base = "k" -> "dir"
           [] OTHER -> NodeOf(root)

\* os.Lstat and os.Stat: [err, mode]
Lstat(root) ==
    IF NodeOf(root) = "none" THEN [err |-> ErrNotExist, mode |-> "none"]
    ELSE [err |-> NoError, mode |-> NodeOf(root)]

Stat(root) ==
    IF TargetOf(root) = "none" THEN [err |-> ErrNotExist, mode |-> "none"]
    ELSE [err |-> NoError, mode |-> TargetOf(root)]

RootBases == {"d", "f", "l", "k", "n"}
Roots == {[base |-> b, suffix |-> x, parent |-> FALSE] : b \in RootBases, x \in BOOLEAN}
Mappers == [copy_links : ConfigValues, links : ConfigValues]

\* the nil fs.Fs, and the zero values of a caller's record
NilFs == [nil |-> TRUE, root |-> [base |-> "", suffix |-> FALSE, parent |-> FALSE],
          opt |-> ZeroOptions, lstat |-> "os.Lstat", localFs |-> 0]
ZeroMapper == [copy_links |-> Unset, links |-> Unset]

----------------------------------------------------------------------------
(* Filter scopes *)

\* a condition given to db.Where: its text, as the words fmt.Sprintf makes of
\* "<column> %s ?", and the value bound to the placeholder
Where(sql, value) == [SQL |-> sql, Vars |-> <<value>>]

\* the scope FilterName returns, by the condition it adds to a query
FilterName(name, operator) == Where(<<"name", operator, "?">>, name)

\* the scope FilterParentPath returns
FilterParentPath(path, operator) == Where(<<"name", operator, "?">>, path)

\* SQLite's comparison of two texts
Compare(operator, a, b) ==
    CASE operator = "=" -> a = b
      [] operator = "<>" -> a # b

\* whether row r satisfies a condition: the first word of its text is the
\* column, the second the operator
Satisfies(r, cond) == Compare(cond.SQL[2], r[cond.SQL[1]], cond.Vars[1])

\* the scope a caller gets from one of the two functions
ScopeOf(call) ==
    IF call.fn = "FilterParentPath" THEN FilterParentPath(call.arg, call.operator)
    ELSE FilterName(call.arg, call.operator)

\* basicFilter(filterList...): oc.db when the list is empty, else oc.db with
\* every scope of the list applied; by the conditions of the resulting query
basicFilter(filterList) ==
    IF Len(filterList) = 0 THEN <<>>
    ELSE [i \in 1..Len(filterList) |-> filterList[i]]

\* the rows of the table a query with those conditions selects
SelectWhere(st, conds) ==
    Restrict(st.rows, {r \in Rows(st) : \A i \in 1..Len(conds) : Satisfies(r, conds[i])})

FilterOperators == {"=", "<>"}
FilterValues == {<<"/">>, <<"/", "d">>, <<"a">>, <<"b">>}
FilterCalls ==
    [fn : {"FilterName", "FilterParentPath"}, arg : FilterValues,
     operator : FilterOperators]
FilterLists ==
    {<<>>} \cup {<<c>> : c \in FilterCalls}
        \cup {<<c, d>> : c \in {x \in FilterCalls : x.fn = "FilterParentPath"},
                         d \in {x \in FilterCalls : x.fn = "FilterName"}}

----------------------------------------------------------------------------
(* Caller goroutines *)

Idle ==
    [oc |-> 0, inited |-> FALSE, db |-> 0,
     pc |-> "idle", op |-> "none", ctx |-> NoDeadline, ctxTemp |-> NoDeadline,
     item |-> ZeroItem, name |-> <<>>,
     newName |-> <<>>, infoMap |-> [state |-> 0], info |-> ZeroInfo,
     stmtCtx |-> NoDeadline, stmt |-> NewStatement("", <<>>), traces |-> <<>>,
     result |-> NoError, err |-> NoError,
     out |-> EmptyBag, isMatch |-> FALSE,
     m |-> ZeroMapper, root |-> NilFs.root, opt |-> ZeroOptions,
     localFs |-> 0, f |-> NilFs,
     filters |-> <<>>, filterList |-> <<>>, conds |-> <<>>, ret |-> 0]

\* the record of p between calls: what it keeps is the instance it holds
Returned(p) == [Idle EXCEPT !.oc = proc[p].oc, !.inited = proc[p].inited]

\* the record of a call of p that has made its ctxTemp
Called(p, op, ctx, timeout) ==
    [Returned(p) EXCEPT !.op = op, !.ctx = ctx,
                        !.ctxTemp = WithTimeout(ctx, now, timeout)]

\* p may start an operation: it holds the instance, whose handle is set (a
\* call through a nil handle ends the process)
CanCall(p) ==
    /\ proc[p].pc = "idle"
    /\ calls < MaxCalls
    /\ proc[p].oc # 0
    /\ oc.db # 0

\* p moves on: its record changes, nothing shared does
Local(p, rec) ==
    /\ proc' = [proc EXCEPT ![p] = rec]
    /\ UNCHANGED <<instance, store, rwLock, now>>

----------------------------------------------------------------------------
(* UpsertItem *)

\* the decode applied whatever the type of the entry
UpsertDecodeAnyType(item) == Unmarshal(item.Info)

\* the decode of the info payload before the guard is taken
UpsertDecode(item) ==
    IF item.Type = EntryObject
    THEN Unmarshal(item.Info)
    ELSE [err |-> NoError, info |-> ZeroInfo]

\* a conflict branch that overwrites every column the entry carries
UpsertAssignAll(item, info, t) ==
    [updated_at |-> t, sha1 |-> info.Fingerprint, size |-> info.Size,
     info |-> item.Info, type |-> item.Type, state |-> item.State]

\* a conflict branch that takes size and sha1 from the entry's own fields, as
\* the insert does
UpsertAssignOwn(item, info, t) ==
    [updated_at |-> t, sha1 |-> item.Sha1, size |-> item.Size,
     info |-> item.Info]

\* DoUpdates: the assignments of the conflict branch
UpsertAssignments(item, info, t) ==
    [updated_at |-> t, sha1 |-> info.Fingerprint, size |-> info.Size,
     info |-> item.Info]

UpsertStatement(st, item, info, t) ==
    SqlInsertOnConflict(st, CreateValues(item, t), UpsertAssignments(item, info, t))

UpsertItem(p, ctx, item) ==
    /\ CanCall(p)
    /\ calls' = calls + 1
    /\ LET u == UpsertDecode(item)
       IN  Local(p, [Called(p, "UpsertItem", ctx, DefaultTimeout) EXCEPT !.item = item,
                                 !.info = u.info, !.err = u.err,
                                 !.ret = IF u.err # NoError THEN 104 ELSE 0,
                                 !.pc = IF u.err # NoError THEN "UpsertItem_return"
                                        ELSE "UpsertItem_lock"])

\* the return of a call that failed before taking the guard
UpsertItemReturn(p) ==
    /\ proc[p].pc = "UpsertItem_return"
    /\ proc' = [proc EXCEPT ![p] = Returned(p)]
    /\ UNCHANGED <<instance, store, rwLock, now, calls>>

UpsertItemLock(p) ==
    /\ proc[p].pc = "UpsertItem_lock"
    /\ CanLock(rwLock)
    /\ rwLock' = Lock(rwLock, p)
    /\ proc' = [proc EXCEPT ![p].pc = "UpsertItem_create"]
    /\ UNCHANGED <<instance, store, now, calls>>

UpsertItemCreate(p) ==
    /\ proc[p].pc = "UpsertItem_create"
    /\ \E fail \in Failures(proc[p].ctxTemp, now) :
        \E r \in {Attempt(fail, store,
                           UpsertStatement(store, proc[p].item, proc[p].info, now))} :
        \E e \in {Execute(NewStatement(SqlInsert, <<proc[p].item.ParentPath,
                                                    proc[p].item.Name>>),
                           r.err, 1, now, 119)} :
            /\ store' = r.store
            /\ proc' = [proc EXCEPT ![p].pc = "UpsertItem_unlock",
                                    ![p].err = e.db.Error,
                                    ![p].result = e.db.Error,
                                    ![p].stmt = e.db, ![p].traces = e.log,
                                    ![p].stmtCtx = proc[p].ctxTemp,
                                    ![p].ret = IF e.db.Error # NoError THEN 122
                                               ELSE 125]
    /\ UNCHANGED <<instance, rwLock, now, calls>>

UpsertItemUnlock(p) ==
    /\ proc[p].pc = "UpsertItem_unlock"
    /\ rwLock' = Unlock(rwLock, p)
    /\ proc' = [proc EXCEPT ![p] = Returned(p)]
    /\ UNCHANGED <<instance, store, now, calls>>

----------------------------------------------------------------------------
(* DeleteItem *)

DeleteItem(p, ctx, name) ==
    /\ CanCall(p)
    /\ calls' = calls + 1
    /\ Local(p, [Called(p, "DeleteItem", ctx, DefaultTimeout) EXCEPT !.name = name,
                             !.pc = "DeleteItem_lock"])

DeleteItemLock(p) ==
    /\ proc[p].pc = "DeleteItem_lock"
    /\ CanLock(rwLock)
    /\ rwLock' = Lock(rwLock, p)
    /\ proc' = [proc EXCEPT ![p].pc = "DeleteItem_delete"]
    /\ UNCHANGED <<instance, store, now, calls>>

\* a delete that filters on the name column alone
DeleteStatementByName(st, name) ==
    IF ~st.hasTable THEN [err |-> ErrNoSuchTable, store |-> st]
    ELSE [err   |-> NoError,
          store |-> [st EXCEPT !.rows =
                        Restrict(st.rows,
                                 {r \in Rows(st) : r.name # Split(name).file})]]

DeleteStatement(st, name) == SqlDelete(st, Split(name).dir, Split(name).file)

DeleteItemDelete(p) ==
    /\ proc[p].pc = "DeleteItem_delete"
    /\ \E fail \in Failures(proc[p].ctxTemp, now) :
        LET k == Split(proc[p].name) IN
        \E r \in {Attempt(fail, store, DeleteStatement(store, proc[p].name))} :
        \E e \in {Execute(NewStatement(SqlDeleteWhere, <<k.dir, k.file>>), r.err,
                           Count(store, Matching(store, k.dir, k.file)), now, 139)} :
            /\ store' = r.store
            /\ proc' = [proc EXCEPT ![p].pc = "DeleteItem_unlock",
                                    ![p].err = e.db.Error,
                                    ![p].result = e.db.Error,
                                    ![p].stmt = e.db, ![p].traces = e.log,
                                    ![p].stmtCtx = proc[p].ctxTemp,
                                    ![p].ret = IF e.db.Error # NoError THEN 142
                                               ELSE 145]
    /\ UNCHANGED <<instance, rwLock, now, calls>>

DeleteItemUnlock(p) ==
    /\ proc[p].pc = "DeleteItem_unlock"
    /\ rwLock' = Unlock(rwLock, p)
    /\ proc' = [proc EXCEPT ![p] = Returned(p)]
    /\ UNCHANGED <<instance, store, now, calls>>

----------------------------------------------------------------------------
(* ModifyItem *)

ModifyItem(p, ctx, name, infoMap) ==
    /\ CanCall(p)
    /\ calls' = calls + 1
    /\ Local(p, [Called(p, "ModifyItem", ctx, DefaultTimeout) EXCEPT !.name = name,
                             !.infoMap = infoMap, !.pc = "ModifyItem_lock"])

ModifyItemLock(p) ==
    /\ proc[p].pc = "ModifyItem_lock"
    /\ CanLock(rwLock)
    /\ rwLock' = Lock(rwLock, p)
    /\ proc' = [proc EXCEPT ![p].pc = "ModifyItem_update"]
    /\ UNCHANGED <<instance, store, now, calls>>

\* the update of ModifyItem keyed by filepath.Dir and filepath.Base, whose
\* directory has no trailing separator
ModifyStatementDirBase(st, name, infoMap) ==
    LET cut == LastSep(name)
        dir == IF cut <= 1 THEN SubSeq(name, 1, cut) ELSE SubSeq(name, 1, cut - 1)
    IN  SqlUpdate(st, dir, SubSeq(name, cut + 1, Len(name)), infoMap)

\* the update of ModifyItem run with a Model, whose autoUpdateTime column is
\* refreshed along with the columns of the map
ModifyStatementWithModel(st, name, infoMap) ==
    SqlUpdate(st, Split(name).dir, Split(name).file,
              [c \in DOMAIN infoMap \cup {"updated_at"} |->
                  IF c \in DOMAIN infoMap THEN infoMap[c] ELSE now])

\* the update of ModifyItem run as UPDATE OR REPLACE, which deletes the rows
\* that hold the key an updated row is given
ModifyStatementReplacing(st, name, infoMap) ==
    LET hit   == Matching(st, Split(name).dir, Split(name).file)
        taken == {o \in Rows(st) \ hit :
                    \E r \in hit : KeyOf(Assign(r, infoMap)) = KeyOf(o)}
    IN  IF ~(DOMAIN infoMap \subseteq ColumnNames)
        THEN SqlUpdate(st, Split(name).dir, Split(name).file, infoMap)
        ELSE SqlUpdate([st EXCEPT !.rows = Restrict(st.rows, Rows(st) \ taken)],
                       Split(name).dir, Split(name).file, infoMap)

ModifyStatement(st, name, infoMap) ==
    SqlUpdate(st, Split(name).dir, Split(name).file, infoMap)

ModifyItemUpdate(p) ==
    /\ proc[p].pc = "ModifyItem_update"
    /\ \E fail \in Failures(proc[p].ctxTemp, now) :
        LET k == Split(proc[p].name) IN
        \E r \in {Attempt(fail, store,
                           ModifyStatement(store, proc[p].name, proc[p].infoMap))} :
        \E e \in {Execute(NewStatement(SqlUpdateWhere, <<k.dir, k.file>>), r.err,
                           Count(store, Matching(store, k.dir, k.file)), now, 159)} :
            /\ store' = r.store
            /\ proc' = [proc EXCEPT ![p].pc = "ModifyItem_unlock",
                                    ![p].err = e.db.Error,
                                    ![p].result = e.db.Error,
                                    ![p].stmt = e.db, ![p].traces = e.log,
                                    ![p].stmtCtx = proc[p].ctxTemp,
                                    ![p].ret = IF e.db.Error # NoError THEN 162
                                               ELSE 165]
    /\ UNCHANGED <<instance, rwLock, now, calls>>

ModifyItemUnlock(p) ==
    /\ proc[p].pc = "ModifyItem_unlock"
    /\ rwLock' = Unlock(rwLock, p)
    /\ proc' = [proc EXCEPT ![p] = Returned(p)]
    /\ UNCHANGED <<instance, store, now, calls>>

----------------------------------------------------------------------------
(* RenameItem *)

RenameItem(p, ctx, oldName, newName) ==
    /\ CanCall(p)
    /\ calls' = calls + 1
    /\ Local(p, [Called(p, "RenameItem", ctx, DefaultTimeout) EXCEPT !.name = oldName,
                             !.newName = newName, !.pc = "RenameItem_lock"])

\* RenameItem taking the guard shared, as the read-only calls do
RenameItemRLock(p) ==
    /\ proc[p].pc = "RenameItem_lock"
    /\ CanRLock(rwLock)
    /\ rwLock' = RLock(rwLock, p)
    /\ proc' = [proc EXCEPT ![p].pc = "RenameItem_update"]
    /\ UNCHANGED <<instance, store, now, calls>>

RenameItemLock(p) ==
    /\ proc[p].pc = "RenameItem_lock"
    /\ CanLock(rwLock)
    /\ rwLock' = Lock(rwLock, p)
    /\ proc' = [proc EXCEPT ![p].pc = "RenameItem_update"]
    /\ UNCHANGED <<instance, store, now, calls>>

\* the update with the commented-out refresh of updated_at switched on
RenameAssignmentsWithTime(newName) ==
    [parent_path |-> Split(newName).dir, name |-> Split(newName).file,
     updated_at |-> now]

\* the key columns set by both updates of RenameItem
RenameAssignments(newName) ==
    [parent_path |-> Split(newName).dir, name |-> Split(newName).file]

RenameStatement(st, oldName, newName) ==
    SqlUpdate(st, Split(oldName).dir, Split(oldName).file,
              RenameAssignments(newName))

\* the direct key update; a unique-key error leads to the transaction, any
\* other error is returned
RenameItemUpdate(p) ==
    /\ proc[p].pc = "RenameItem_update"
    /\ \E fail \in Failures(proc[p].ctxTemp, now) :
        LET k == Split(proc[p].name) IN
        \E r \in {Attempt(fail, store,
                           RenameStatement(store, proc[p].name, proc[p].newName))} :
        \E e \in {Execute(NewStatement(SqlUpdateWhere, <<k.dir, k.file>>), r.err,
                           Count(store, Matching(store, k.dir, k.file)), now, 180)} :
            /\ store' = r.store
            /\ proc' = [proc EXCEPT
                    ![p].result = e.db.Error,
                    ![p].stmt = e.db,
                    ![p].traces = e.log,
                    ![p].stmtCtx = proc[p].ctxTemp,
                    ![p].err = e.db.Error,
                    ![p].pc = IF e.db.Error # NoError
                                 /\ Contains(e.db.Error, ErrorOfUniqueKeyExist)
                              THEN "RenameItem_transaction"
                              ELSE "RenameItem_unlock",
                    ![p].ret = IF e.db.Error = NoError THEN 222
                               ELSE IF Contains(e.db.Error, ErrorOfUniqueKeyExist)
                                    THEN 0
                               ELSE 219]
    /\ UNCHANGED <<instance, rwLock, now, calls>>

FailPoints == {"none", "begin", "delete", "update", "commit"}

\* the function run inside the transaction: its returned error, the rows the
\* transaction then holds, the error of its last statement (rd.Error, or
\* ru.Error once the update has run), that statement as its callbacks left
\* it, and the records the hooks logged
RenameFallback(tx, oldName, newName, fail) ==
    LET old == Split(oldName)
        new == Split(newName)
        \* what the function returns when its delete has ended as d and the
        \* update, run on what the delete left, as u
        fc(d, u) ==
            LET rd == Execute(NewStatement(SqlDeleteWhere, <<new.dir, new.file>>),
                              d.err, Count(tx, Matching(tx, new.dir, new.file)),
                              now, 191)
                ru == Execute(NewStatement(SqlUpdateWhere, <<old.dir, old.file>>),
                              u.err,
                              Count(d.store, Matching(d.store, old.dir, old.file)),
                              now, 199)
            IN  IF rd.db.Error # NoError
                THEN [err |-> rd.db.Error, store |-> d.store,
                      result |-> rd.db.Error, stmt |-> rd.db, log |-> rd.log]
                ELSE IF ru.db.Error # NoError
                     THEN [err |-> rd.db.Error, store |-> u.store,
                           result |-> ru.db.Error, stmt |-> ru.db,
                           log |-> rd.log \o ru.log]
                ELSE [err |-> NoError, store |-> u.store, result |-> NoError,
                      stmt |-> ru.db, log |-> rd.log \o ru.log]
    IN  CHOOSE r \in
            UNION {{fc(d, u) :
                        u \in {Attempt(fail = "update", d.store,
                                       RenameStatement(d.store, oldName, newName))}} :
                    d \in {Attempt(fail = "delete", tx,
                                   SqlDelete(tx, new.dir, new.file))}} : TRUE

\* db.Transaction(fc): commit when fc returns nil, roll back otherwise; fc is
\* not run when the transaction cannot begin
Transaction(st, fc, fail) ==
    IF fail = "begin"
    THEN [err |-> ErrStore, store |-> st, result |-> ErrStore, ran |-> FALSE]
    ELSE IF fc.err # NoError
         THEN [err |-> fc.err, store |-> st, result |-> fc.result, ran |-> TRUE]
    ELSE IF fail = "commit"
         THEN [err |-> ErrStore, store |-> st, result |-> ErrStore, ran |-> TRUE]
    ELSE [err |-> NoError, store |-> fc.store, result |-> fc.result, ran |-> TRUE]

RenameItemTransaction(p) ==
    /\ proc[p].pc = "RenameItem_transaction"
    /\ \E fail \in FailPoints :
        \E fc \in {RenameFallback(store, proc[p].name, proc[p].newName, fail)} :
        \E r \in {Transaction(store, fc, fail)} :
            /\ store' = r.store
            /\ proc' = [proc EXCEPT ![p].pc = "RenameItem_unlock", ![p].err = r.err,
                                    ![p].result = r.result,
                                    ![p].stmt = IF r.ran THEN fc.stmt ELSE @,
                                    ![p].traces = IF r.ran THEN fc.log ELSE <<>>,
                                    ![p].stmtCtx = NoDeadline,
                                    ![p].ret = IF r.err # NoError THEN 212 ELSE 215]
    /\ UNCHANGED <<instance, rwLock, now, calls>>

RenameItemUnlock(p) ==
    /\ proc[p].pc = "RenameItem_unlock"
    /\ rwLock' = Unlock(rwLock, p)
    /\ proc' = [proc EXCEPT ![p] = Returned(p)]
    /\ UNCHANGED <<instance, store, now, calls>>

----------------------------------------------------------------------------
(* GetItem *)

GetItem(p, ctx, name) ==
    /\ CanCall(p)
    /\ calls' = calls + 1
    /\ Local(p, [Called(p, "GetItem", ctx, DefaultTimeout) EXCEPT !.name = name,
                             !.pc = "GetItem_rlock"])

\* GetItem entering its query without taking the guard
GetItemWithoutRLock(p) ==
    /\ proc[p].pc = "GetItem_rlock"
    /\ proc' = [proc EXCEPT ![p].pc = "GetItem_first"]
    /\ UNCHANGED <<instance, store, rwLock, now, calls>>

GetItemRLock(p) ==
    /\ proc[p].pc = "GetItem_rlock"
    /\ CanRLock(rwLock)
    /\ rwLock' = RLock(rwLock, p)
    /\ proc' = [proc EXCEPT ![p].pc = "GetItem_first"]
    /\ UNCHANGED <<instance, store, now, calls>>

\* the query of GetItem run with Find, which reports no error for an empty result
GetStatementWithFind(st, name) ==
    LET r == SqlFirst(st, Split(name).dir, Split(name).file)
    IN  IF r.err = ErrRecordNotFound THEN {[err |-> NoError, rows |-> EmptyBag]}
        ELSE IF r.err # NoError THEN {[err |-> r.err, rows |-> EmptyBag]}
        ELSE {[err |-> NoError, rows |-> SetToBag({x})] : x \in r.rows}

\* the possible results of the query of GetItem: [err, rows]
GetStatement(st, name) ==
    LET r == SqlFirst(st, Split(name).dir, Split(name).file)
    IN  IF r.err # NoError THEN {[err |-> r.err, rows |-> EmptyBag]}
        ELSE {[err |-> NoError, rows |-> SetToBag({x})] : x \in r.rows}

GetItemFirst(p) ==
    /\ proc[p].pc = "GetItem_first"
    /\ \E fail \in Failures(proc[p].ctxTemp, now) :
        \E r \in IF fail THEN {[err |-> ErrStore, rows |-> EmptyBag]}
                 ELSE GetStatement(store, proc[p].name) :
            LET k == Split(proc[p].name)
                e == Execute(NewStatement(SqlSelectFirst, <<k.dir, k.file>>), r.err,
                             BagCardinality(r.rows), now, 237)
            IN  proc' = [proc EXCEPT ![p].pc = "GetItem_runlock",
                                     ![p].err = e.db.Error,
                                     ![p].result = e.db.Error,
                                     ![p].stmt = e.db, ![p].traces = e.log,
                                     ![p].stmtCtx = proc[p].ctxTemp,
                                     ![p].out = r.rows,
                                     ![p].ret = IF e.db.Error # NoError THEN 240
                                                ELSE 243]
    /\ UNCHANGED <<instance, store, rwLock, now, calls>>

GetItemRUnlock(p) ==
    /\ proc[p].pc = "GetItem_runlock"
    /\ rwLock' = RUnlock(rwLock, p)
    /\ proc' = [proc EXCEPT ![p] = Returned(p)]
    /\ UNCHANGED <<instance, store, now, calls>>

----------------------------------------------------------------------------
(* GetAllItem *)

BatchSize == 1000

GetAllItem(p, ctx) ==
    /\ CanCall(p)
    /\ calls' = calls + 1
    /\ Local(p, [Called(p, "GetAllItem", ctx, GetAllTimeout) EXCEPT
                    !.pc = "GetAllItem_rlock"])

GetAllItemRLock(p) ==
    /\ proc[p].pc = "GetAllItem_rlock"
    /\ CanRLock(rwLock)
    /\ rwLock' = RLock(rwLock, p)
    /\ proc' = [proc EXCEPT ![p].pc = "GetAllItem_find"]
    /\ UNCHANGED <<instance, store, now, calls>>

GetAllStatement(st) == FindInBatches(st, BatchSize)

GetAllItemFind(p) ==
    /\ proc[p].pc = "GetAllItem_find"
    /\ \E fail \in Failures(proc[p].ctxTemp, now) :
        \E r \in IF fail THEN {[err |-> ErrStore, rows |-> EmptyBag]}
                 ELSE GetAllStatement(store) :
            \* the query of the batch, and the error FindInBatches returns: that of
            \* the query or, after a full batch, its own
            LET q   == IF r.err = ErrPrimaryKeyRequired THEN NoError ELSE r.err
                e   == Execute(NewStatement(SqlSelectBatch, <<>>), q,
                               BagCardinality(r.rows), now, 257)
                err == IF e.db.Error # NoError THEN e.db.Error ELSE r.err
            IN  proc' = [proc EXCEPT ![p].pc = "GetAllItem_runlock", ![p].err = err,
                                     ![p].result = err,
                                     ![p].stmt = e.db, ![p].traces = e.log,
                                     ![p].stmtCtx = proc[p].ctxTemp,
                                     ![p].out = r.rows,
                                     ![p].ret = IF err # NoError THEN 263 ELSE 266]
    /\ UNCHANGED <<instance, store, rwLock, now, calls>>

GetAllItemRUnlock(p) ==
    /\ proc[p].pc = "GetAllItem_runlock"
    /\ rwLock' = RUnlock(rwLock, p)
    /\ proc' = [proc EXCEPT ![p] = Returned(p)]
    /\ UNCHANGED <<instance, store, now, calls>>

----------------------------------------------------------------------------
(* DeleteAllItem *)

DeleteAllItem(p, ctx) ==
    /\ CanCall(p)
    /\ calls' = calls + 1
    /\ Local(p, [Called(p, "DeleteAllItem", ctx, DefaultTimeout) EXCEPT
                    !.pc = "DeleteAllItem_lock"])

DeleteAllItemLock(p) ==
    /\ proc[p].pc = "DeleteAllItem_lock"
    /\ CanLock(rwLock)
    /\ rwLock' = Lock(rwLock, p)
    /\ proc' = [proc EXCEPT ![p].pc = "DeleteAllItem_delete"]
    /\ UNCHANGED <<instance, store, now, calls>>

\* Table(...).WithContext(ctx).Delete(&Item{}): no Where, and Item has no
\* primary key to build one from
DeleteAllStatement(st) == SqlDeleteNoWhere(st)

DeleteAllItemDelete(p) ==
    /\ proc[p].pc = "DeleteAllItem_delete"
    /\ \E fail \in Failures(proc[p].ctxTemp, now) :
        \E r \in {Attempt(fail, store, DeleteAllStatement(store))} :
        \E e \in {Execute(NewStatement(SqlDeleteAll, <<>>), r.err,
                           BagCardinality(store.rows), now, 277)} :
            /\ store' = r.store
            /\ proc' = [proc EXCEPT ![p].pc = "DeleteAllItem_unlock",
                                    ![p].err = e.db.Error,
                                    ![p].result = e.db.Error,
                                    ![p].stmt = e.db, ![p].traces = e.log,
                                    ![p].stmtCtx = proc[p].ctxTemp,
                                    ![p].ret = IF e.db.Error # NoError THEN 280
                                               ELSE 283]
    /\ UNCHANGED <<instance, rwLock, now, calls>>

DeleteAllItemUnlock(p) ==
    /\ proc[p].pc = "DeleteAllItem_unlock"
    /\ rwLock' = Unlock(rwLock, p)
    /\ proc' = [proc EXCEPT ![p] = Returned(p)]
    /\ UNCHANGED <<instance, store, now, calls>>

----------------------------------------------------------------------------
(* GetOriginCache *)

GetOriginCache(p) ==
    /\ proc[p].pc = "idle"
    /\ proc[p].oc = 0
    /\ proc' = [proc EXCEPT ![p] = [Returned(p) EXCEPT !.op = "GetOriginCache",
                                                       !.pc = "GetOriginCache_Do"]]
    /\ UNCHANGED <<instance, store, rwLock, now, calls>>

\* originCacheOnce.Do(f): nothing to do when done is set
OnceDo(p) ==
    /\ proc[p].pc = "GetOriginCache_Do"
    /\ proc' = [proc EXCEPT ![p].pc = IF originCacheOnce.done
                                      THEN "GetOriginCache_return"
                                      ELSE "GetOriginCache_Lock"]
    /\ UNCHANGED <<instance, store, rwLock, now, calls>>

\* a doSlow that goes on without the mutex of the Once
OnceLockSkipped(p) ==
    /\ proc[p].pc = "GetOriginCache_Lock"
    /\ proc' = [proc EXCEPT ![p].pc = "GetOriginCache_doSlow"]
    /\ UNCHANGED <<instance, store, rwLock, now, calls>>

\* doSlow: the mutex of the Once is taken
OnceLock(p) ==
    /\ proc[p].pc = "GetOriginCache_Lock"
    /\ originCacheOnce.m = 0
    /\ originCacheOnce' = [originCacheOnce EXCEPT !.m = p]
    /\ proc' = [proc EXCEPT ![p].pc = "GetOriginCache_doSlow"]
    /\ UNCHANGED <<originCache, oc, opened, store, rwLock, now, calls>>

\* under the mutex: done is read again; when it is set the mutex is released
OnceDoSlow(p) ==
    /\ proc[p].pc = "GetOriginCache_doSlow"
    /\ IF originCacheOnce.done
       THEN /\ originCacheOnce' = [originCacheOnce EXCEPT !.m = 0]
            /\ proc' = [proc EXCEPT ![p].pc = "GetOriginCache_return"]
       ELSE /\ proc' = [proc EXCEPT ![p].pc = "GetOriginCache_f"]
            /\ UNCHANGED originCacheOnce
    /\ UNCHANGED <<originCache, oc, opened, store, rwLock, now, calls>>

\* f constructs the instance; done is set and the mutex released
OnceF(p) ==
    /\ proc[p].pc = "GetOriginCache_f"
    /\ originCache' = originCache + 1
    /\ originCacheOnce' = [done |-> TRUE, m |-> 0]
    /\ proc' = [proc EXCEPT ![p].pc = "GetOriginCache_return"]
    /\ UNCHANGED <<oc, opened, store, rwLock, now, calls>>

GetOriginCacheReturn(p) ==
    /\ proc[p].pc = "GetOriginCache_return"
    /\ proc' = [proc EXCEPT ![p] = [Returned(p) EXCEPT !.oc = originCache]]
    /\ UNCHANGED <<instance, store, rwLock, now, calls>>

----------------------------------------------------------------------------
(* Init and createTable, statement by statement *)

OriginCacheInit(p) ==
    /\ proc[p].pc = "idle"
    /\ proc[p].oc # 0
    /\ opened < MaxOpens
    /\ proc' = [proc EXCEPT ![p] = [Returned(p) EXCEPT !.op = "Init",
                                                       !.pc = "Init_OpenDB"]]
    /\ UNCHANGED <<instance, store, rwLock, now, calls>>

\* db, tracer, err := OpenDB(file)
InitOpenDB(p) ==
    /\ proc[p].pc = "Init_OpenDB"
    /\ \E fail \in BOOLEAN :
        IF fail
        THEN /\ proc' = [proc EXCEPT ![p].pc = "Init_return",
                                     ![p].err = ErrOpenFailed, ![p].ret = 31]
             /\ UNCHANGED opened
        ELSE /\ opened' = opened + 1
             /\ proc' = [proc EXCEPT ![p].pc = "Init_db", ![p].db = opened + 1]
    /\ UNCHANGED <<originCache, originCacheOnce, oc, store, rwLock, now, calls>>

\* oc.db = db
InitSetDB(p) ==
    /\ proc[p].pc = "Init_db"
    /\ oc' = [oc EXCEPT !.db = proc[p].db]
    /\ proc' = [proc EXCEPT ![p].pc = "Init_tracer"]
    /\ UNCHANGED <<originCache, originCacheOnce, opened, store, rwLock, now, calls>>

\* oc.tracer = tracer
InitSetTracer(p) ==
    /\ proc[p].pc = "Init_tracer"
    /\ oc' = [oc EXCEPT !.tracer = proc[p].db]
    /\ proc' = [proc EXCEPT ![p].pc = "createTable_table"]
    /\ UNCHANGED <<originCache, originCacheOnce, opened, store, rwLock, now, calls>>

\* the CREATE TABLE statement of createTable
CreateTableTable(p) ==
    /\ proc[p].pc = "createTable_table"
    /\ \E fail \in BOOLEAN :
        \E r \in {Attempt(fail, store, ExecCreateTable(store))} :
        \E e \in {Execute(NewStatement(SqlCreateTable, <<>>), r.err, 0, now, 54)} :
            /\ store' = r.store
            /\ proc' = [proc EXCEPT
                    ![p].result = e.db.Error,
                    ![p].stmt = e.db,
                    ![p].traces = e.log,
                    ![p].err = e.db.Error,
                    ![p].pc = IF e.db.Error # NoError THEN "Init_return"
                              ELSE "createTable_index",
                    ![p].ret = IF e.db.Error # NoError THEN 39 ELSE 0]
    /\ UNCHANGED <<instance, rwLock, now, calls>>

\* the CREATE UNIQUE INDEX statement of createTable
CreateTableIndex(p) ==
    /\ proc[p].pc = "createTable_index"
    /\ \E fail \in BOOLEAN :
        \E r \in {Attempt(fail, store, ExecCreateUniqueIndex(store))} :
        \E x \in {Execute(NewStatement(SqlCreateIndex, <<>>), r.err, 0, now, 61)} :
        \E e \in {createIndexError(x.db.Error)} :
            /\ store' = r.store
            /\ proc' = [proc EXCEPT ![p].result = x.db.Error, ![p].err = e,
                                    ![p].stmt = x.db, ![p].traces = x.log,
                                    ![p].pc = "Init_return",
                                    ![p].ret = IF e # NoError THEN 39 ELSE 42]
    /\ UNCHANGED <<instance, rwLock, now, calls>>

InitReturn(p) ==
    /\ proc[p].pc = "Init_return"
    /\ proc' = [proc EXCEPT ![p] =
                    [Returned(p) EXCEPT
                        !.inited = proc[p].inited \/ proc[p].err = NoError]]
    /\ UNCHANGED <<instance, store, rwLock, now, calls>>

----------------------------------------------------------------------------
(* IsPartialFile of backend/hybridzfs *)

\* a regular expression as the items it is compiled to: one character of a
\* class, or any number of them
One(class, c) == [op |-> "one", class |-> class, c |-> c]
Star(class, c) == [op |-> "star", class |-> class, c |-> c]

HexDigits ==
    {"0", "1", "2", "3", "4", "5", "6", "7", "8", "9", "a", "b", "c", "d", "e", "f"}

\* whether character ch is of the class of an item: `.` is any character but
\* the newline (the flag s is not set), [a-f0-9] a lower-case hex digit, a
\* literal itself
InClass(item, ch) ==
    CASE item.class = "any" -> ch # "\n"
      [] item.class = "hex" -> ch \in HexDigits
      [] item.class = "lit" -> ch = item.c

\* "^.*\\.[a-f0-9]{8}\\.partial$"
patten ==
    <<Star("any", ""), One("lit", ".")>>
        \o [i \in 1..8 |-> One("hex", "")]
        \o <<One("lit", "."), One("lit", "p"), One("lit", "a"), One("lit", "r"),
             One("lit", "t"), One("lit", "i"), One("lit", "a"), One("lit", "l")>>

\* whether the items of re from the i-th on match s from its j-th character
\* to its end ($ without the flag m is the end of the text)
RECURSIVE MatchHere(_, _, _, _)
MatchHere(re, i, s, j) ==
    IF i > Len(re) THEN j > Len(s)
    ELSE IF re[i].op = "star"
         THEN \/ MatchHere(re, i + 1, s, j)
              \/ /\ j <= Len(s)
                 /\ InClass(re[i], s[j])
                 /\ MatchHere(re, i, s, j + 1)
    ELSE /\ j <= Len(s)
         /\ InClass(re[i], s[j])
         /\ MatchHere(re, i + 1, s, j + 1)

\* regexp.MatchString(pattern, s) for a pattern that starts with ^ (without
\* the flag m, the start of the text); the pattern compiles
MatchString(re, s) == [isMatch |-> MatchHere(re, 1, s, 1), err |-> NoError]

IsPartialFile(name) ==
    LET m == MatchString(patten, name)
    IN  IF m.err # NoError THEN FALSE ELSE m.isMatch

\* file names: what stands before the suffix, the separator, the eight
\* characters, and the ending
NamePrefixes ==
    {<<>>, <<"x">>, <<"t", ".", "t", "x", "t">>, <<"a", "\n", "b">>}

NameDots == {<<".">>, <<>>, <<"-">>}

NameDigits ==
    {<<"e", "f", "e", "4", "5", "4", "d", "d">>,
     <<"E", "F", "E", "4", "5", "4", "D", "D">>,
     <<"e", "f", "e", "4", "5", "4", "d">>,
     <<"e", "f", "e", "4", "5", "4", "d", "d", "0">>,
     <<"e", "f", "e", "4", "5", "4", "d", "g">>}

NameEndings ==
    {<<".", "p", "a", "r", "t", "i", "a", "l">>,
     <<".", "p", "a", "r", "t", "i", "a", "l", "1">>,
     <<".", "p", "a", "r", "t", "i", "a">>,
     <<".", "P", "a", "r", "t", "i", "a", "l">>,
     <<".", "p", "a", "r", "t", "i", "a", "l", "\n">>}

FileNames ==
    {a \o b \o c \o d :
        a \in NamePrefixes, b \in NameDots, c \in NameDigits, d \in NameEndings}

\* a goroutine asks whether name is a partial file
CallIsPartialFile(p, name) ==
    /\ proc[p].pc = "idle"
    /\ proc' = [proc EXCEPT ![p] = [Returned(p) EXCEPT !.op = "IsPartialFile",
                                                       !.name = name,
                                                       !.pc = "IsPartialFile_MatchString"]]
    /\ UNCHANGED <<instance, store, rwLock, now, calls>>

IsPartialFileMatchString(p) ==
    /\ proc[p].pc = "IsPartialFile_MatchString"
    /\ proc' = [proc EXCEPT ![p].isMatch = IsPartialFile(proc[p].name),
                            ![p].ret = 12,
                            ![p].pc = "IsPartialFile_return"]
    /\ UNCHANGED <<instance, store, rwLock, now, calls>>

IsPartialFileReturn(p) ==
    /\ proc[p].pc = "IsPartialFile_return"
    /\ proc' = [proc EXCEPT ![p] = Returned(p)]
    /\ UNCHANGED <<instance, store, rwLock, now, calls>>

----------------------------------------------------------------------------
(* NewFs of backend/hybridzfs *)

CallNewFs(p, m, root) ==
    /\ proc[p].pc = "idle"
    /\ proc' = [proc EXCEPT ![p] = [Returned(p) EXCEPT !.op = "NewFs",
                                                       !.m = m, !.root = root,
                                                       !.pc = "NewFs_Set"]]
    /\ UNCHANGED <<instance, store, rwLock, now, calls>>

\* a NewFs that goes on to the local filesystem whatever the symlink options are
NewFsSetUnchecked(p) ==
    /\ proc[p].pc = "NewFs_Set"
    /\ LET r == Set(proc[p].m)
       IN  proc' = [proc EXCEPT
                ![p].opt = r.opt,
                ![p].err = r.err,
                ![p].ret = IF r.err # NoError THEN 381 ELSE 0,
                ![p].pc = IF r.err # NoError THEN "NewFs_return" ELSE "NewFs_local"]
    /\ UNCHANGED <<instance, store, rwLock, now, calls>>

\* the options are parsed and the two symlink options checked
NewFsSet(p) ==
    /\ proc[p].pc = "NewFs_Set"
    /\ LET r    == Set(proc[p].m)
           both == r.opt.TranslateSymlinks /\ r.opt.FollowSymlinks
       IN  proc' = [proc EXCEPT
                ![p].opt = r.opt,
                ![p].err = IF r.err # NoError THEN r.err
                           ELSE IF both THEN errLinksAndCopyLinks ELSE NoError,
                ![p].ret = IF r.err # NoError THEN 381
                           ELSE IF both THEN 384 ELSE 0,
                ![p].pc = IF r.err # NoError \/ both THEN "NewFs_return"
                          ELSE "NewFs_local"]
    /\ UNCHANGED <<instance, store, rwLock, now, calls>>

\* local.NewFs(ctx, name, root, m): the local filesystem, or its error
NewFsLocal(p) ==
    /\ proc[p].pc = "NewFs_local"
    /\ \E ok \in BOOLEAN :
        proc' = [proc EXCEPT
            ![p].localFs = IF ok THEN 1 ELSE 0,
            ![p].err = IF ok THEN NoError ELSE ErrLocalNewFs,
            ![p].ret = IF ok THEN 0 ELSE 389,
            ![p].pc = IF ok THEN "NewFs_Hvfs" ELSE "NewFs_return"]
    /\ UNCHANGED <<instance, store, rwLock, now, calls>>

\* the Hvfs is built around the local filesystem; with copy_links the root is
\* looked at through os.Stat
NewFsHvfs(p) ==
    /\ proc[p].pc = "NewFs_Hvfs"
    /\ proc' = [proc EXCEPT
            ![p].f = [nil |-> FALSE, root |-> proc[p].root, opt |-> proc[p].opt,
                      lstat |-> IF proc[p].opt.FollowSymlinks THEN "os.Stat"
                                ELSE "os.Lstat",
                      localFs |-> proc[p].localFs],
            ![p].pc = "NewFs_lstat"]
    /\ UNCHANGED <<instance, store, rwLock, now, calls>>

\* f.isRegular(mode)
isRegular(f, mode) ==
    IF ~f.opt.TranslateSymlinks THEN mode = "file"
    ELSE mode \in {"file", "symlink"}

\* f.lstat(path)
lstat(f, path) == IF f.lstat = "os.Stat" THEN Stat(path) ELSE Lstat(path)

\* the root is looked at: a root that is a file gives the filesystem of its
\* parent with ErrorIsFile
NewFsLstat(p) ==
    /\ proc[p].pc = "NewFs_lstat"
    /\ LET f     == proc[p].f
           opt   == proc[p].opt
           first == lstat(f, f.root)
           fi    == IF HasSuffix(f.root) /\ opt.TranslateSymlinks
                       /\ first.err = ErrNotExist
                    THEN lstat(f, TrimSuffix(f.root)) ELSE first
           file  == fi.err = NoError /\ isRegular(f, fi.mode)
           needs == file /\ ~HasSuffix(f.root) /\ opt.TranslateSymlinks
                    /\ fi.mode = "symlink"
       IN  proc' = [proc EXCEPT
                ![p].f = IF needs THEN NilFs
                         ELSE IF file THEN [f EXCEPT !.root.parent = TRUE]
                         ELSE f,
                ![p].err = IF needs THEN errLinksNeedsSuffix
                           ELSE IF file THEN ErrorIsFile ELSE NoError,
                ![p].ret = IF needs THEN 447 ELSE IF file THEN 452 ELSE 457,
                ![p].pc = "NewFs_return"]
    /\ UNCHANGED <<instance, store, rwLock, now, calls>>

NewFsReturn(p) ==
    /\ proc[p].pc = "NewFs_return"
    /\ proc' = [proc EXCEPT ![p] = Returned(p)]
    /\ UNCHANGED <<instance, store, rwLock, now, calls>>

----------------------------------------------------------------------------
(* Queries built from FilterName and FilterParentPath *)

\* a caller makes its scopes, one per call of FilterName or FilterParentPath
CallFilters(p, filters) ==
    /\ proc[p].pc = "idle"
    /\ proc[p].oc # 0 /\ oc.db # 0
    /\ proc' = [proc EXCEPT ![p] =
            [Returned(p) EXCEPT !.op = "basicFilter",
                                !.filters = filters,
                                !.filterList = [i \in 1..Len(filters) |->
                                                  ScopeOf(filters[i])],
                                !.pc = "basicFilter_Scopes"]]
    /\ UNCHANGED <<instance, store, rwLock, now, calls>>

basicFilterScopes(p) ==
    /\ proc[p].pc = "basicFilter_Scopes"
    /\ proc' = [proc EXCEPT ![p].conds = basicFilter(proc[p].filterList),
                            ![p].ret = IF Len(proc[p].filterList) = 0 THEN 88 ELSE 90,
                            ![p].pc = "basicFilter_Find"]
    /\ UNCHANGED <<instance, store, rwLock, now, calls>>

\* the caller runs the query it was given
basicFilterFind(p) ==
    /\ proc[p].pc = "basicFilter_Find"
    /\ proc' = [proc EXCEPT ![p].out = SelectWhere(store, proc[p].conds),
                            ![p].pc = "basicFilter_return"]
    /\ UNCHANGED <<instance, store, rwLock, now, calls>>

basicFilterReturn(p) ==
    /\ proc[p].pc = "basicFilter_return"
    /\ proc' = [proc EXCEPT ![p] = Returned(p)]
    /\ UNCHANGED <<instance, store, rwLock, now, calls>>

----------------------------------------------------------------------------
(* Large tables *)

\* the decimal digits of i
RECURSIVE Decimal(_)
Decimal(i) ==
    LET digit == <<"0", "1", "2", "3", "4", "5", "6", "7", "8", "9">>
    IN  IF i < 10 THEN <<digit[i + 1]>>
        ELSE Decimal(i \div 10) \o <<digit[(i % 10) + 1]>>

\* the file of an earlier run that left n directory entries /f1 ... /fn
LargeFile(n) ==
    [hasTable |-> TRUE, hasIndex |-> TRUE,
     rows |-> SetToBag({CreateValues(NewItem(<<"/">>, <<"f">> \o Decimal(i),
                                             EntryDirectory, <<>>), 1) :
                            i \in 1..n})]

\* files with one row less than a batch of GetAllItem, and with a full batch
LargeFiles == {LargeFile(BatchSize - 1), LargeFile(BatchSize)}

----------------------------------------------------------------------------
(* The clock, and the specification *)

Tick ==
    /\ now < MaxTime
    /\ now' = now + 1
    /\ UNCHANGED <<instance, store, rwLock, proc, calls>>

\* the state after GetOriginCache and a successful Init over one of the files
Init ==
    /\ \E file \in InitialFiles :
        /\ OcInit(file).err = NoError
        /\ store = OcInit(file).store
    /\ originCache = 1
    /\ originCacheOnce = [done |-> TRUE, m |-> 0]
    /\ oc = [db |-> 1, tracer |-> 1]
    /\ opened = 1
    /\ rwLock = FreeLock
    /\ proc = [p \in Procs |-> [Idle EXCEPT !.oc = 1, !.inited = (p = 1)]]
    /\ now = 1
    /\ calls = 0

\* the calls p may start with a context of C, an entry of I, paths of P and
\* a map of M
CallsOf(p, C, I, P, M) ==
    \/ \E ctx \in C, item \in I : UpsertItem(p, ctx, item)
    \/ \E ctx \in C, name \in P : DeleteItem(p, ctx, name)
    \/ \E ctx \in C, name \in P, infoMap \in M :
        ModifyItem(p, ctx, name, infoMap)
    \/ \E ctx \in C, oldName \in P, newName \in P :
        RenameItem(p, ctx, oldName, newName)
    \/ \E ctx \in C, name \in P : GetItem(p, ctx, name)
    \/ \E ctx \in C : GetAllItem(p, ctx)
    \/ \E ctx \in C : DeleteAllItem(p, ctx)

\* the calls p may start with a context of C
Calls(p, C) == CallsOf(p, C, Items, Paths, InfoMaps)

\* the steps of the call p is in
Steps(p) ==
    \/ UpsertItemReturn(p)
    \/ UpsertItemLock(p)
    \/ UpsertItemCreate(p)
    \/ UpsertItemUnlock(p)
    \/ DeleteItemLock(p)
    \/ DeleteItemDelete(p)
    \/ DeleteItemUnlock(p)
    \/ ModifyItemLock(p)
    \/ ModifyItemUpdate(p)
    \/ ModifyItemUnlock(p)
    \/ RenameItemLock(p)
    \/ RenameItemUpdate(p)
    \/ RenameItemTransaction(p)
    \/ RenameItemUnlock(p)
    \/ GetItemRLock(p)
    \/ GetItemFirst(p)
    \/ GetItemRUnlock(p)
    \/ GetAllItemRLock(p)
    \/ GetAllItemFind(p)
    \/ GetAllItemRUnlock(p)
    \/ DeleteAllItemLock(p)
    \/ DeleteAllItemDelete(p)
    \/ DeleteAllItemUnlock(p)

\* callers whose contexts stay live
Next ==
    \/ Tick
    \/ \E p \in Procs : Calls(p, LiveContexts) \/ Steps(p)

Spec == Init /\ [][Next]_vars

\* every goroutine that can take a step is scheduled, and one that waits for
\* the guard gets it once the guard stays free
Fairness == \A p \in Procs : WF_vars(Steps(p))

\* callers that work on the entries "/a" and "/b"
NextFair ==
    \/ Tick
    \/ \E p \in Procs :
        \/ CallsOf(p, LiveContexts,
                   {NewItem(<<"/">>, <<"a">>, EntryObject, b) :
                        b \in {<<"junk">>, InfoBlob(20, "f2")}},
                   {<<"/", "a">>, <<"/", "b">>}, {[state |-> 1]})
        \/ Steps(p)

SpecFair == Init /\ [][NextFair]_vars /\ Fairness

\* callers whose contexts have no deadline, or one that passes during the call
NextDeadline ==
    \/ Tick
    \/ \E p \in Procs : Calls(p, Contexts) \/ Steps(p)

SpecDeadline == Init /\ [][NextDeadline]_vars

\* a process from its start: goroutines get the instance, initialise it over
\* one of the files, look entries up and delete them
InitProcess ==
    /\ originCache = 0
    /\ originCacheOnce = [done |-> FALSE, m |-> 0]
    /\ oc = [db |-> 0, tracer |-> 0]
    /\ opened = 0
    /\ store \in InitialFiles
    /\ rwLock = FreeLock
    /\ proc = [p \in Procs |-> Idle]
    /\ now = 1
    /\ calls = 0

NextProcess ==
    \E p \in Procs :
        \/ GetOriginCache(p)
        \/ OnceDo(p)
        \/ OnceLock(p)
        \/ OnceDoSlow(p)
        \/ OnceF(p)
        \/ GetOriginCacheReturn(p)
        \/ OriginCacheInit(p)
        \/ InitOpenDB(p)
        \/ InitSetDB(p)
        \/ InitSetTracer(p)
        \/ CreateTableTable(p)
        \/ CreateTableIndex(p)
        \/ InitReturn(p)
        \/ \E ctx \in LiveContexts, name \in Paths : GetItem(p, ctx, name)
        \/ GetItemRLock(p)
        \/ GetItemFirst(p)
        \/ GetItemRUnlock(p)
        \/ \E ctx \in LiveContexts, name \in Paths : DeleteItem(p, ctx, name)
        \/ DeleteItemLock(p)
        \/ DeleteItemDelete(p)
        \/ DeleteItemUnlock(p)

SpecProcess == InitProcess /\ [][NextProcess]_vars

\* a cache opened on a large table: callers add directory entries and read
\* the whole table
InitBatches ==
    /\ \E file \in LargeFiles :
        /\ OcInit(file).err = NoError
        /\ store = OcInit(file).store
    /\ originCache = 1
    /\ originCacheOnce = [done |-> TRUE, m |-> 0]
    /\ oc = [db |-> 1, tracer |-> 1]
    /\ opened = 1
    /\ rwLock = FreeLock
    /\ proc = [p \in Procs |-> [Idle EXCEPT !.oc = 1, !.inited = (p = 1)]]
    /\ now = 1
    /\ calls = 0

NextBatches ==
    \/ Tick
    \/ \E p \in Procs :
        \/ \E ctx \in LiveContexts, n \in Names :
            UpsertItem(p, ctx, NewItem(<<"/">>, n, EntryDirectory, <<>>))
        \/ UpsertItemLock(p)
        \/ UpsertItemCreate(p)
        \/ UpsertItemUnlock(p)
        \/ \E ctx \in LiveContexts : GetAllItem(p, ctx)
        \/ GetAllItemRLock(p)
        \/ GetAllItemFind(p)
        \/ GetAllItemRUnlock(p)

SpecBatches == InitBatches /\ [][NextBatches]_vars

\* goroutines of a process that has not opened the cache test file names
NextPartial ==
    \E p \in Procs :
        \/ \E name \in FileNames : CallIsPartialFile(p, name)
        \/ IsPartialFileMatchString(p)
        \/ IsPartialFileReturn(p)

\* no cache is opened: the file names are checked before any store exists
InitPartial == InitProcess /\ store = FreshFile

SpecPartial == InitPartial /\ [][NextPartial]_vars

\* one goroutine constructs hybridzfs filesystems; no cache is opened
NewFsCallers == {1}

InitNewFs == InitProcess /\ store = FreshFile

NextNewFs ==
    \E p \in NewFsCallers :
        \/ \E m \in Mappers, root \in Roots : CallNewFs(p, m, root)
        \/ NewFsSet(p)
        \/ NewFsLocal(p)
        \/ NewFsHvfs(p)
        \/ NewFsLstat(p)
        \/ NewFsReturn(p)

SpecNewFs == InitNewFs /\ [][NextNewFs]_vars

\* one goroutine queries an initialised cache through filter scopes
FilterCallers == {1}

NextFilter ==
    \E p \in FilterCallers :
        \/ \E filters \in FilterLists : CallFilters(p, filters)
        \/ basicFilterScopes(p)
        \/ basicFilterFind(p)
        \/ basicFilterReturn(p)

SpecFilter == Init /\ [][NextFilter]_vars

----------------------------------------------------------------------------
(* Properties *)

\* the rows a path addresses, and what GetItem answers for it
RowAt(st, name) == Matching(st, Split(name).dir, Split(name).file)

Rekeyed(r, name) ==
    [r EXCEPT !.parent_path = Split(name).dir, !.name = Split(name).file]

Found(st, name, r) ==
    GetStatement(st, name) = {[err |-> NoError, rows |-> SetToBag({r})]}

NotFound(st, name) ==
    GetStatement(st, name) = {[err |-> ErrRecordNotFound, rows |-> EmptyBag]}

\* p takes the step that leaves pc value `from`
Leaves(p, from) == proc[p].pc = from /\ proc'[p].pc # from

\* the rows of st other than those in S are the same, each as often, in st2
SameOutside(st, st2, S) ==
    /\ Rows(st) \ S \subseteq Rows(st2)
    /\ \A r \in Rows(st) \ S : st2.rows[r] = st.rows[r]

\* C1: in every reachable state of an initialised cache no two rows share
\* (parent_path, name): the number of rows is the number of distinct keys
C1_UniqueKey ==
    BagCardinality(store.rows) = Cardinality({KeyOf(r) : r \in Rows(store)})

\* two callers upsert the same key at once: one has written its row, the
\* other waits for the guard
C1_Witness ==
    \E p, q \in Procs :
        /\ p # q
        /\ proc[p].pc = "UpsertItem_unlock" /\ proc[p].ret = 125
        /\ proc[q].pc = "UpsertItem_lock"
        /\ proc[p].item.ParentPath = proc[q].item.ParentPath
        /\ proc[p].item.Name = proc[q].item.Name
        /\ Matching(store, proc[p].item.ParentPath, proc[p].item.Name) # {}
        /\ BagCardinality(store.rows) >= 2

\* where a call holds the guard: from its acquisition to its release
WriterInside(p) ==
    proc[p].pc \in {"UpsertItem_create", "UpsertItem_unlock",
                    "DeleteItem_delete", "DeleteItem_unlock",
                    "ModifyItem_update", "ModifyItem_unlock",
                    "RenameItem_update", "RenameItem_transaction",
                    "RenameItem_unlock",
                    "DeleteAllItem_delete", "DeleteAllItem_unlock"}

ReaderInside(p) ==
    proc[p].pc \in {"GetItem_first", "GetItem_runlock",
                    "GetAllItem_find", "GetAllItem_runlock"}

\* C9: while a mutating call is inside its store access no other call,
\* mutating or read-only, is inside its own
C9_WritersExclusive ==
    \A p, q \in Procs :
        (p # q /\ WriterInside(p)) => ~WriterInside(q) /\ ~ReaderInside(q)

\* two read-only calls are inside their store access at the same time
C9_Witness ==
    \E p, q \in Procs :
        /\ p # q
        /\ proc[p].pc = "GetItem_first"
        /\ proc[q].pc = "GetAllItem_find"


\* C2: the conflict fallback of RenameItem is atomic: either the destination
\* row is deleted and the source row re-keyed, or the call returns an error
\* and the store holds the rows it held before
C2_FallbackAtomic ==
    [][\A p \in Procs :
        Leaves(p, "RenameItem_transaction") =>
            LET a == proc[p].name
                b == proc[p].newName
            IN  \/ /\ proc'[p].err = NoError
                   /\ RowAt(store', a) = {}
                   /\ \A r \in RowAt(store, a) : RowAt(store', b) = {Rekeyed(r, b)}
                \/ /\ proc'[p].err # NoError
                   /\ store' = store]_vars

\* C3: a successful RenameItem(a, b) with rows at both paths leaves exactly one
\* row at b, which is a's former row under the new key; b's former row is
\* gone, GetItem(a) finds nothing and every other row is unchanged
C3_RenameOntoExisting ==
    [][\A p \in Procs :
        (Leaves(p, "RenameItem_transaction") /\ proc'[p].err = NoError) =>
            LET a == proc[p].name
                b == proc[p].newName
            IN  /\ \A r \in RowAt(store, a) :
                      /\ RowAt(store', b) = {Rekeyed(r, b)}
                      /\ store'.rows[Rekeyed(r, b)] = 1
                /\ NotFound(store', a)
                /\ SameOutside(store, store', RowAt(store, a) \cup RowAt(store, b))
                /\ BagCardinality(store'.rows) = BagCardinality(store.rows) - 1]_vars

\* C4: RenameItem(a, b) with a row at a and none at b succeeds unless the
\* store fails the statement; GetItem(b) then returns a's row with every
\* non-key column as before, GetItem(a) finds nothing, the row count is the same
C4_RenameToAbsent ==
    [][\A p \in Procs :
        (/\ Leaves(p, "RenameItem_update")
         /\ RowAt(store, proc[p].name) # {}
         /\ RowAt(store, proc[p].newName) = {}) =>
            LET a == proc[p].name
                b == proc[p].newName
            IN  \/ /\ proc'[p].err = ErrStore
                   /\ store' = store
                \/ /\ proc'[p].err = NoError
                   /\ proc'[p].pc = "RenameItem_unlock"
                   /\ \A r \in RowAt(store, a) : Found(store', b, Rekeyed(r, b))
                   /\ NotFound(store', a)
                   /\ BagCardinality(store'.rows) = BagCardinality(store.rows)]_vars

\* a rename onto a free key has returned nil after its direct update, at a
\* time later than the row's last update
C4_Witness ==
    \E p \in Procs :
        /\ proc[p].pc = "RenameItem_unlock" /\ proc[p].ret = 222
        /\ proc[p].name # proc[p].newName
        /\ RowAt(store, proc[p].name) = {}
        /\ \E r \in RowAt(store, proc[p].newName) : r.updated_at < now

\* an entry as the data model describes it: parent_path keeps its trailing
\* separator, name has none, an object carries a payload that decodes
ValidItem(item) ==
    /\ Len(item.ParentPath) > 0
    /\ item.ParentPath[Len(item.ParentPath)] = Sep
    /\ Len(item.Name) > 0
    /\ \A i \in 1..Len(item.Name) : item.Name[i] # Sep
    /\ item.Type = EntryObject => Unmarshal(item.Info).err = NoError

\* C5: after a successful UpsertItem of a valid entry, GetItem on its path
\* returns a row whose size, sha1 and info are the entry's
C5_UpsertThenGet ==
    [][\A p \in Procs :
        (/\ Leaves(p, "UpsertItem_create")
         /\ proc'[p].err = NoError
         /\ ValidItem(proc[p].item)) =>
            LET item == proc[p].item
            IN  \E r \in Rows(store') :
                    /\ Found(store', item.ParentPath \o item.Name, r)
                    /\ r.size = item.Size
                    /\ r.sha1 = item.Sha1
                    /\ r.info = item.Info]_vars

\* C6: UpsertItem is idempotent: once an entry has been upserted, upserting it
\* again leaves its row the same in every column but updated_at, and every
\* other row as it is
C6_UpsertIdempotent ==
    [][\A p \in Procs :
        (Leaves(p, "UpsertItem_create") /\ proc'[p].err = NoError) =>
            LET item  == proc[p].item
                once  == store'
                twice == UpsertStatement(once, item, proc[p].info, now').store
                row   == Matching(once, item.ParentPath, item.Name)
            IN  /\ SameOutside(once, twice, row)
                /\ \A r1 \in row :
                    \E r2 \in Matching(twice, item.ParentPath, item.Name) :
                        \A c \in ColumnNames \ {"updated_at"} : r1[c] = r2[c]]_vars

\* C7: an UpsertItem whose key has a row changes at most updated_at, sha1, size
\* and info of that row: its parent_path, name, type, state and created_at
\* stay, and so does every other row
C7_UpsertConflictFrame ==
    [][\A p \in Procs :
        (/\ Leaves(p, "UpsertItem_create")
         /\ Matching(store, proc[p].item.ParentPath, proc[p].item.Name) # {}) =>
            LET item == proc[p].item
                hit  == Matching(store, item.ParentPath, item.Name)
            IN  /\ SameOutside(store, store', hit)
                /\ BagCardinality(store'.rows) = BagCardinality(store.rows)
                /\ \A r \in hit :
                    \E r2 \in Matching(store', item.ParentPath, item.Name) :
                        \A c \in {"parent_path", "name", "type", "state", "created_at"} :
                            r2[c] = r[c]]_vars

\* an upsert of an entry of another type than the stored row's has returned
\* nil after updating the row
C7_Witness ==
    \E p \in Procs :
        /\ proc[p].pc = "UpsertItem_unlock" /\ proc[p].ret = 125
        /\ \E r \in Matching(store, proc[p].item.ParentPath, proc[p].item.Name) :
            /\ r.updated_at > r.created_at
            /\ r.type # proc[p].item.Type

\* C8: UpsertItem of an object entry whose payload does not decode returns the
\* decode error without taking the guard or touching the store; an entry of
\* another type goes on to the guard whatever its payload is
C8_DecodeBeforeWrite ==
    [][\A p \in Procs :
        /\ (proc[p].pc = "idle" /\ proc'[p].op = "UpsertItem") =>
            LET item == proc'[p].item
            IN  /\ store' = store
                /\ rwLock' = rwLock
                /\ IF item.Type = EntryObject /\ Unmarshal(item.Info).err # NoError
                   THEN /\ proc'[p].pc = "UpsertItem_return"
                        /\ proc'[p].err = ErrUnmarshal
                   ELSE /\ proc'[p].pc = "UpsertItem_lock"
                        /\ proc'[p].err = NoError
        /\ Leaves(p, "UpsertItem_return") =>
            /\ proc'[p].pc = "idle"
            /\ store' = store
            /\ rwLock' = rwLock]_vars

\* one caller is returning the decode error of an object entry while another
\* has written a directory entry whose payload does not decode either
C8_Witness ==
    \E p, q \in Procs :
        /\ proc[p].pc = "UpsertItem_return" /\ proc[p].ret = 104
        /\ proc[p].item.Type = EntryObject
        /\ proc[q].pc = "UpsertItem_unlock" /\ proc[q].ret = 125
        /\ proc[q].item.Type = EntryDirectory
        /\ Unmarshal(proc[q].item.Info).err # NoError

\* C10: DeleteAllItem, unless the store fails the statement, returns nil and
\* leaves no row: GetAllItem is empty and GetItem finds nothing for any path
C10_DeleteAllEmpties ==
    [][\A p \in Procs :
        Leaves(p, "DeleteAllItem_delete") =>
            \/ /\ proc'[p].err = ErrStore
               /\ store' = store
            \/ /\ proc'[p].err = NoError
               /\ GetAllStatement(store') = {[err |-> NoError, rows |-> EmptyBag]}
               /\ \A name \in Paths : NotFound(store', name)]_vars

\* C14: DeleteItem(path), unless the store fails the statement, returns nil and
\* removes the row whose key is split(path) and no other row; when there is no
\* such row the store is left as it is
C14_DeleteFrame ==
    [][\A p \in Procs :
        Leaves(p, "DeleteItem_delete") =>
            LET hit == RowAt(store, proc[p].name)
            IN  \/ /\ proc'[p].err = ErrStore
                   /\ store' = store
                \/ /\ proc'[p].err = NoError
                   /\ RowAt(store', proc[p].name) = {}
                   /\ Rows(store') = Rows(store) \ hit
                   /\ SameOutside(store, store', hit)
                   /\ hit = {} => store' = store]_vars

\* the only call so far, a delete, has returned nil after removing one of the
\* three rows of the earlier run
C14_Witness ==
    \E p \in Procs :
        /\ proc[p].pc = "DeleteItem_unlock" /\ proc[p].ret = 145
        /\ calls = 1
        /\ BagCardinality(store.rows) = 2
        /\ RowAt(store, proc[p].name) = {}

\* C15: GetItem(path), unless the store fails the query, returns the row whose
\* key is split(path) when there is one and the not-found error when there is
\* none; no step of GetItem or GetAllItem changes the store
C15_GetFindsOrNotFound ==
    [][\A p \in Procs :
        /\ Leaves(p, "GetItem_first") =>
            LET hit == RowAt(store, proc[p].name)
            IN  \/ /\ proc'[p].err = ErrStore
                   /\ proc'[p].out = EmptyBag
                \/ /\ hit = {}
                   /\ proc'[p].err = ErrRecordNotFound
                   /\ proc'[p].out = EmptyBag
                \/ /\ proc'[p].err = NoError
                   /\ \E r \in hit : proc'[p].out = SetToBag({r})
        /\ (/\ proc'[p] # proc[p]
            /\ \/ proc[p].op \in {"GetItem", "GetAllItem"}
               \/ proc'[p].op \in {"GetItem", "GetAllItem"}) =>
            store' = store]_vars

\* two lookups hold the guard together: one has found its row, the other has
\* the not-found error for a path that has no row
C15_Witness ==
    \E p, q \in Procs :
        /\ proc[p].pc = "GetItem_runlock" /\ proc[p].ret = 243
        /\ proc[p].out = SetToBag(RowAt(store, proc[p].name))
        /\ proc[q].pc = "GetItem_runlock" /\ proc[q].ret = 240
        /\ proc[q].err = ErrRecordNotFound
        /\ RowAt(store, proc[q].name) = {}

\* the split of the data model, stated without filepath.Split: row r is the
\* row of path when its parent_path followed by its name spells the path and
\* the name holds no separator
Addresses(path, r) ==
    /\ r.parent_path \o r.name = path
    /\ \A i \in 1..Len(r.name) : r.name[i] # Sep

\* the key an operation derives from path is the split of the data model
SplitsPath(path) ==
    LET k == Split(path)
    IN  /\ k.dir \o k.file = path
        /\ \A i \in 1..Len(k.file) : k.file[i] # Sep
        /\ k.dir = <<>> \/ k.dir[Len(k.dir)] = Sep

\* C20: DeleteItem, ModifyItem, RenameItem (for both its paths) and GetItem
\* derive the key from a path by the same split, parent_path up to and
\* including the last separator and name the rest, so a path addresses the
\* same row in each of them: the rows a statement removes, changes or returns
\* are rows of its path, and the rows a rename writes are rows of its new path
C20_SameSplit ==
    [][\A p \in Procs :
        LET a       == proc[p].name
            b       == proc[p].newName
            ok      == proc'[p].err = NoError
            gone    == Rows(store) \ Rows(store')
            written == Rows(store') \ Rows(store)
            mine    == {r \in Rows(store) : Addresses(a, r)}
        IN  /\ Leaves(p, "DeleteItem_delete") =>
                /\ SplitsPath(a)
                /\ gone \subseteq mine
                /\ ok => gone = mine
            /\ Leaves(p, "ModifyItem_update") =>
                /\ SplitsPath(a)
                /\ gone \subseteq mine
                /\ ok => written = {Assign(r, proc[p].infoMap) : r \in mine} \ Rows(store)
            /\ Leaves(p, "RenameItem_update") =>
                /\ SplitsPath(a) /\ SplitsPath(b)
                /\ gone \subseteq mine
                /\ \A r \in written : Addresses(b, r)
                /\ (ok /\ a # b) => gone = mine
            /\ Leaves(p, "RenameItem_transaction") =>
                /\ SplitsPath(a) /\ SplitsPath(b)
                /\ \A r \in gone : Addresses(a, r) \/ Addresses(b, r)
                /\ \A r \in written : Addresses(b, r)
            /\ Leaves(p, "GetItem_first") =>
                /\ SplitsPath(a)
                /\ BagToSet(proc'[p].out) \subseteq mine
                /\ proc'[p].err = ErrRecordNotFound => mine = {}]_vars

\* a lookup of the nested path has found nothing although a row is stored
\* with that directory written without its trailing separator, while a
\* modify of the path "/a" has changed the row of "/a"
C20_Witness ==
    \E p, q \in Procs :
        /\ proc[p].pc = "GetItem_runlock" /\ proc[p].ret = 240
        /\ proc[p].name = <<"/", "d", "/", "a">>
        /\ Matching(store, <<"/", "d">>, <<"a">>) # {}
        /\ proc[q].pc = "idle"
        /\ calls = 2
        /\ \E r \in Rows(store) : Addresses(<<"/", "a">>, r) /\ r.state = 1

\* C13: each successful mutation of a row (UpsertItem on a key that has a row,
\* ModifyItem, RenameItem) leaves the row's updated_at strictly greater than it
\* was and its created_at as it was
C13_TimestampsAdvance ==
    [][\A p \in Procs :
        LET a   == proc[p].name
            ok  == proc'[p].err = NoError
            Advanced(r, S) ==
                \E r2 \in S : /\ r2.created_at = r.created_at
                               /\ r2.updated_at > r.updated_at
        IN  /\ (Leaves(p, "UpsertItem_create") /\ ok) =>
                LET item == proc[p].item
                IN  \A r \in Matching(store, item.ParentPath, item.Name) :
                        Advanced(r, Matching(store', item.ParentPath, item.Name))
            /\ (Leaves(p, "ModifyItem_update") /\ ok) =>
                \A r \in RowAt(store, a) :
                    LET k == KeyOf(Assign(r, proc[p].infoMap))
                    IN  Advanced(r, Matching(store', k[1], k[2]))
            /\ (/\ \/ Leaves(p, "RenameItem_update")
                   \/ Leaves(p, "RenameItem_transaction")
                /\ ok
                /\ proc'[p].pc = "RenameItem_unlock") =>
                \A r \in RowAt(store, a) :
                    Advanced(r, RowAt(store', proc[p].newName))]_vars

\* the steps that run store statements, and the steps that end a call
StatementSteps ==
    {"UpsertItem_create", "DeleteItem_delete", "ModifyItem_update",
     "RenameItem_update", "RenameItem_transaction", "GetItem_first",
     "GetAllItem_find", "DeleteAllItem_delete"}

ReturnSteps ==
    {"UpsertItem_unlock", "DeleteItem_unlock", "ModifyItem_unlock",
     "RenameItem_unlock", "GetItem_runlock", "GetAllItem_runlock",
     "DeleteAllItem_unlock"}

\* C19: no operation retries a failed statement or hides its error: but for
\* the unique-key error of RenameItem's direct update, which leads once to the
\* transaction, the error of a failed statement ends the call at once and is
\* the error the call returns
C19_ErrorsSurface ==
    [][\A p \in Procs : \A from \in StatementSteps :
        (Leaves(p, from) /\ proc'[p].result # NoError) =>
            IF from = "RenameItem_update"
               /\ Contains(proc'[p].result, ErrorOfUniqueKeyExist)
            THEN proc'[p].pc = "RenameItem_transaction"
            ELSE /\ proc'[p].pc \in ReturnSteps
                 /\ proc'[p].err = proc'[p].result]_vars

\* the default budget of an operation, in seconds from the start of the call
Budget(op) == IF op = "GetAllItem" THEN 60 ELSE 3

\* deadline d is set and no later than that of ctx
NotLater(d, ctx) == d # NoDeadline /\ (ctx = NoDeadline \/ d <= ctx)

\* C12: every statement of an operation, the delete and update of RenameItem's
\* transaction included, runs under a context whose deadline is no later than
\* the caller's and no later than the operation's default budget counted from
\* the start of the call; none runs with a later deadline or with none
C12_StatementDeadlines ==
    [][\A p \in Procs :
        /\ (proc[p].pc = "idle" /\ proc'[p].pc # "idle") =>
            /\ NotLater(proc'[p].ctxTemp, proc'[p].ctx)
            /\ proc'[p].ctxTemp <= now + Budget(proc'[p].op)
        /\ \A from \in StatementSteps :
            Leaves(p, from) =>
                /\ NotLater(proc'[p].stmtCtx, proc[p].ctx)
                /\ proc'[p].stmtCtx <= proc[p].ctxTemp]_vars

\* C11: GetAllItem, unless the store fails the query, returns nil and the
\* rows of the table, each as often as it is stored, whether the table holds
\* fewer rows than a batch, exactly a batch, or more
C11_GetAllReturnsAll ==
    [][\A p \in Procs :
        Leaves(p, "GetAllItem_find") =>
            \/ /\ proc'[p].err = ErrStore
               /\ proc'[p].out = EmptyBag
            \/ /\ proc'[p].err = NoError
               /\ proc'[p].out = store.rows]_vars

\* C17: GetOriginCache gives every caller the same instance, callers that
\* make the first call at the same time included, and the instance is
\* constructed once
C17_SingleInstance ==
    /\ originCache <= 1
    /\ \A p \in Procs :
        /\ proc[p].pc = "GetOriginCache_return" => originCache = 1
        /\ proc[p].oc # 0 => proc[p].oc = originCache

\* two first callers at once: one is returning the instance it constructed,
\* the other, which found done unset, holds the mutex and finds it set
C17_Witness ==
    \E p, q \in Procs :
        /\ proc[p].pc = "GetOriginCache_return"
        /\ proc[q].pc = "GetOriginCache_doSlow"
        /\ originCacheOnce = [done |-> TRUE, m |-> q]
        /\ originCache = 1

\* C18: schema creation is idempotent. Neither statement changes a row; on a
\* store that has the table and the index, unless the store fails a
\* statement, createTable returns nil and leaves the store as it is; an
\* "already exists" answer is success, and any other error of either
\* statement is what Init returns
C18_SchemaIdempotent ==
    [][\A p \in Procs :
        /\ Leaves(p, "createTable_table") =>
            /\ store'.rows = store.rows
            /\ IF proc'[p].result = NoError
               THEN /\ proc'[p].pc = "createTable_index"
                    /\ store'.hasTable
               ELSE /\ proc'[p].pc = "Init_return"
                    /\ proc'[p].err = proc'[p].result
                    /\ store' = store
            /\ (store.hasTable /\ proc'[p].result # ErrStore) =>
                    /\ proc'[p].result = NoError
                    /\ store' = store
        /\ Leaves(p, "createTable_index") =>
            /\ store'.rows = store.rows
            /\ proc'[p].pc = "Init_return"
            /\ proc'[p].err = IF Contains(proc'[p].result, ErrorOfAlreadyExist)
                              THEN NoError
                              ELSE proc'[p].result
            /\ (store.hasTable /\ store.hasIndex /\ proc'[p].result # ErrStore) =>
                    /\ proc'[p].err = NoError
                    /\ store' = store]_vars

\* a second Init over a table with rows is returning nil after the store
\* answered that the index already exists
C18_Witness ==
    \E p \in Procs :
        /\ proc[p].pc = "Init_return" /\ proc[p].ret = 42
        /\ proc[p].result = ErrIndexExists
        /\ proc[p].db = 2
        /\ BagCardinality(store.rows) > 0

\* C16: Init is idempotent and thread-safe: once an Init has returned nil, no
\* later or concurrent Init changes the handle or the tracer of the instance,
\* and the handle does not change while an operation is inside the guard
C16_InitOnce ==
    [][/\ (\E q \in Procs : proc[q].inited) => oc' = oc
       /\ (\E q \in Procs : WriterInside(q) \/ ReaderInside(q)) => oc'.db = oc.db]_vars

\* C21: ModifyItem(path, fields), unless the store fails the statement, sets
\* the columns named in fields on the row whose key is split(path) and leaves
\* every other column of it and every other row as they are; with no row at
\* the path it changes nothing; a field that is no column of the table makes
\* the call return an error of the store with the store unchanged
C21_ModifyFrame ==
    [][\A p \in Procs :
        Leaves(p, "ModifyItem_update") =>
            LET m   == proc[p].infoMap
                hit == RowAt(store, proc[p].name)
                Written(r, r2) ==
                    \A c \in ColumnNames :
                        r2[c] = IF c \in DOMAIN m THEN m[c] ELSE r[c]
            IN  /\ proc'[p].err # NoError => store' = store
                /\ ~(DOMAIN m \subseteq ColumnNames) => proc'[p].err # NoError
                /\ hit = {} => store' = store
                /\ proc'[p].err = NoError =>
                    /\ SameOutside(store, store', hit)
                    /\ BagCardinality(store'.rows) = BagCardinality(store.rows)
                    /\ \A r \in hit : \E r2 \in Rows(store') : Written(r, r2)
                    /\ \A r2 \in Rows(store') \ Rows(store) :
                        \E r \in hit : Written(r, r2)]_vars

\* a modify of the state column has returned nil at a time later than the
\* row's last update: the row has the new state, its size and timestamps as
\* they were, and the two other rows are still there
C21_Witness ==
    \E p \in Procs :
        /\ proc[p].pc = "ModifyItem_unlock" /\ proc[p].ret = 165
        /\ proc[p].infoMap = [state |-> 1]
        /\ BagCardinality(store.rows) = 3
        /\ \E r \in RowAt(store, proc[p].name) :
            /\ r.state = 1
            /\ r.size = 10
            /\ r.updated_at < now

\* the statement of p's step as its callbacks have left it is the statement
\* gorm's own callbacks make: the text and values it was built with, one of
\* the errors errs or a failure of the store, and n rows when it ran; the
\* hooks have added the start time to its settings and logged one record,
\* which reads the statement
Unhooked(p, sql, values, errs, n) ==
    LET s == proc'[p].stmt
    IN  /\ s.SQL = sql
        /\ s.Vars = values
        /\ s.Error \in errs \cup {ErrStore}
        /\ s.RowsAffected = IF s.Error = NoError THEN n ELSE 0
        /\ DOMAIN s.Settings = {startTime}
        /\ s.Settings[startTime] = [Time |-> now]
        /\ Len(proc'[p].traces) = 1
        /\ proc'[p].traces[1].SQL = <<sql>> \o values
        /\ proc'[p].traces[1].Rows = s.RowsAffected
        /\ proc'[p].traces[1].Timestamp = now
        /\ proc'[p].traces[1].CostSeconds = 0

\* C22: the hooks do not change the outcome of the statement they wrap: the
\* before hook records the start time and nothing else, the after hook logs
\* a record when the start time is there, and the error, the rows affected
\* and the statement are those of the statement run without hooks; the error
\* the operation goes on with is that error
C22_HooksTransparent ==
    [][\A p \in Procs :
        LET k    == Split(proc[p].name)
            key  == <<k.dir, k.file>>
            item == proc[p].item
            hit  == Count(store, RowAt(store, proc[p].name))
        IN  /\ Leaves(p, "UpsertItem_create") =>
                /\ Unhooked(p, SqlInsert, <<item.ParentPath, item.Name>>,
                            {UpsertStatement(store, item, proc[p].info, now).err}, 1)
                /\ proc'[p].err = proc'[p].stmt.Error
            /\ Leaves(p, "DeleteItem_delete") =>
                /\ Unhooked(p, SqlDeleteWhere, key,
                            {DeleteStatement(store, proc[p].name).err}, hit)
                /\ proc'[p].err = proc'[p].stmt.Error
            /\ Leaves(p, "ModifyItem_update") =>
                /\ Unhooked(p, SqlUpdateWhere, key,
                            {ModifyStatement(store, proc[p].name,
                                             proc[p].infoMap).err}, hit)
                /\ proc'[p].err = proc'[p].stmt.Error
            /\ Leaves(p, "RenameItem_update") =>
                /\ Unhooked(p, SqlUpdateWhere, key,
                            {RenameStatement(store, proc[p].name,
                                             proc[p].newName).err}, hit)
                /\ proc'[p].err = proc'[p].stmt.Error
            /\ Leaves(p, "GetItem_first") =>
                /\ Unhooked(p, SqlSelectFirst, key,
                            {r.err : r \in GetStatement(store, proc[p].name)}, 1)
                /\ proc'[p].err = proc'[p].stmt.Error
            /\ Leaves(p, "GetAllItem_find") =>
                /\ Unhooked(p, SqlSelectBatch, <<>>, {NoError},
                            BagCardinality(proc'[p].out))
                /\ proc'[p].stmt.Error # NoError =>
                        proc'[p].err = proc'[p].stmt.Error
            /\ Leaves(p, "DeleteAllItem_delete") =>
                /\ Unhooked(p, SqlDeleteAll, <<>>,
                            {DeleteAllStatement(store).err}, 0)
                /\ proc'[p].err = proc'[p].stmt.Error]_vars

\* a modify naming a column the table does not have has its error from the
\* store, no row affected, and the record of the statement logged at the
\* second second
C22_Witness ==
    \E p \in Procs :
        /\ proc[p].pc = "ModifyItem_unlock" /\ proc[p].ret = 162
        /\ proc[p].stmt.Error = ErrNoSuchColumn
        /\ Len(proc[p].traces) = 1
        /\ proc[p].traces[1].Stack = 159
        /\ proc[p].traces[1].Rows = 0
        /\ proc[p].traces[1].Timestamp = 2

\* C23: the record the after hook logs for a statement that ended with an
\* error carries the text of that error, and the record of a statement that
\* ended without error carries an empty text
C23_TraceCarriesError ==
    [][\A p \in Procs : \A from \in StatementSteps :
        (Leaves(p, from) /\ proc'[p].traces # <<>>) =>
            LET last == proc'[p].traces[Len(proc'[p].traces)]
            IN  last.ErrorStr = proc'[p].stmt.Error]_vars

\* name ends with a dot, eight lower-case hex digits and ".partial"
EndsAsPartial(name) ==
    LET n == Len(name)
    IN  /\ n >= 17
        /\ name[n - 16] = "."
        /\ \A i \in (n - 15)..(n - 8) : name[i] \in HexDigits
        /\ SubSeq(name, n - 7, n) = <<".", "p", "a", "r", "t", "i", "a", "l">>

\* C24: IsPartialFile(name) is true exactly when name ends with a dot, eight
\* characters of 0-9 and a-f, and ".partial" with nothing after it
C24_PartialSuffix ==
    \A p \in Procs :
        proc[p].pc = "IsPartialFile_return" =>
            proc[p].isMatch = EndsAsPartial(proc[p].name)

\* C25: no operation runs a statement before schema creation has succeeded:
\* a statement of an operation runs only after an Init has returned nil, and
\* an Init that returns an error, from OpenDB or from createTable, when none
\* has returned nil leaves the instance without a handle
C25_NoStatementBeforeSchema ==
    [][\A p \in Procs :
        /\ (Leaves(p, "GetItem_first") \/ Leaves(p, "DeleteItem_delete")) =>
                \E q \in Procs : proc[q].inited
        /\ (/\ Leaves(p, "Init_return")
            /\ proc[p].err # NoError
            /\ \A q \in Procs : ~proc[q].inited) =>
                oc'.db = 0]_vars

\* where RenameItem stands between taking the guard and releasing it
RenameInside(p) ==
    proc[p].pc \in {"RenameItem_update", "RenameItem_transaction", "RenameItem_unlock"}

\* C26: RenameItem holds the guard exclusively from before its direct update
\* until after its transaction has committed or rolled back: while it is
\* there it is the writer and there is no reader, the step from the failed
\* update to the transaction leaves the guard as it is, and no other call
\* runs a statement or changes the store
C26_RenameHoldsGuard ==
    [][\A p \in Procs :
        /\ RenameInside(p) =>
            /\ rwLock = Lock(FreeLock, p)
            /\ \A q \in Procs \ {p} :
                \A from \in StatementSteps : ~Leaves(q, from)
            /\ proc'[p] = proc[p] => store' = store
        /\ (RenameInside(p) /\ proc'[p].pc # "idle") => rwLock' = rwLock]_vars

\* a rename whose direct update met the unique-key error is about to run its
\* transaction while the other caller waits for the guard to read the
\* destination
C26_Witness ==
    \E p, q \in Procs :
        /\ proc[p].pc = "RenameItem_transaction"
        /\ proc[p].result = ErrUniqueFailed
        /\ proc[q].pc = "GetItem_rlock"
        /\ proc[q].name = proc[p].newName
        /\ rwLock.writer = p

\* C27: RenameItem(a, b) with no row at a, unless the store fails the
\* statement, returns nil and leaves the store as it is, whether b has a row
\* or not; the transaction runs only when a has a row; and no step of a
\* rename removes a row of b unless it puts a row of a under the key of b
C27_RenameAbsentSource ==
    [][\A p \in Procs :
        LET a == proc[p].name
            b == proc[p].newName
        IN  /\ (Leaves(p, "RenameItem_update") /\ RowAt(store, a) = {}) =>
                /\ proc'[p].pc = "RenameItem_unlock"
                /\ proc'[p].err \in {NoError, ErrStore}
                /\ store' = store
            /\ Leaves(p, "RenameItem_transaction") => RowAt(store, a) # {}
            /\ (/\ Leaves(p, "RenameItem_update") \/ Leaves(p, "RenameItem_transaction")
                /\ \E r \in RowAt(store, b) : r \notin Rows(store')) =>
                \E r \in RowAt(store, a) : Rekeyed(r, b) \in Rows(store')]_vars

\* C28: every operation releases the guard on every return path and never
\* takes it twice: a caller holds the guard exactly while it is between its
\* acquisition and its return, the guard is free when every call has
\* returned, and under fair scheduling every call that has started returns
C28_GuardReleased ==
    /\ [](\A p \in Procs :
            /\ rwLock.writer = p <=> WriterInside(p)
            /\ p \in rwLock.readers <=> ReaderInside(p))
    /\ []((\A p \in Procs : proc[p].pc = "idle") => rwLock = FreeLock)
    /\ \A p \in Procs : (proc[p].pc # "idle") ~> (proc[p].pc = "idle")

\* a call is on its error return path with the guard still held, while the
\* other caller waits for the guard
C28_Witness ==
    \E p, q \in Procs :
        /\ proc[p].pc = "DeleteAllItem_unlock" /\ proc[p].ret = 280
        /\ rwLock.writer = p
        /\ proc[q].pc = "GetAllItem_rlock"

\* the paths a caller may build from the key fields of an entry
JoinedPaths(item) ==
    {item.ParentPath \o item.Name, item.ParentPath \o <<Sep>> \o item.Name}

\* C29: UpsertItem stores the entry under the parent_path and name it is
\* given, without splitting a path: after a successful UpsertItem the row of
\* that key is what GetItem returns for a path exactly when the path splits
\* into that key; the row of an entry whose parent_path lacks the trailing
\* separator is not found by GetItem and is left alone by the statements of
\* DeleteItem, ModifyItem and RenameItem on the joined path
C29_UpsertKeyAsGiven ==
    [][\A p \in Procs :
        (Leaves(p, "UpsertItem_create") /\ proc'[p].err = NoError) =>
            LET item == proc[p].item
                key  == [dir |-> item.ParentPath, file |-> item.Name]
            IN  \E r \in Matching(store', item.ParentPath, item.Name) :
                    /\ \A path \in Paths \cup JoinedPaths(item) :
                        Found(store', path, r) <=> Split(path) = key
                    /\ item.ParentPath[Len(item.ParentPath)] # Sep =>
                        \A path \in JoinedPaths(item) :
                            /\ ~Found(store', path, r)
                            /\ r \in Rows(DeleteStatement(store', path).store)
                            /\ \A m \in InfoMaps :
                                r \in Rows(ModifyStatement(store', path, m).store)
                            /\ \A to \in Paths :
                                r \in Rows(RenameStatement(store', path, to).store)]_vars

\* an entry whose parent_path lacks the trailing separator has been inserted
\* by this call, and GetItem on its joined path finds nothing
C29_Witness ==
    \E p \in Procs :
        /\ proc[p].pc = "UpsertItem_unlock" /\ proc[p].ret = 125
        /\ proc[p].item = UnsplitItem
        /\ \E r \in Matching(store, UnsplitItem.ParentPath, UnsplitItem.Name) :
            r.created_at = now /\ r.created_at > 1
        /\ NotFound(store, <<"/", "d", "/", "a">>)

\* C30: the two paths of UpsertItem take size and sha1 from different places:
\* an insert of a new key stores the entry's own Size and Sha1, an upsert on a
\* key that has a row stores the size and fingerprint decoded from the info
\* payload, which for an entry that is not an object are 0 and the empty string
C30_UpsertSizeSources ==
    [][\A p \in Procs :
        (Leaves(p, "UpsertItem_create") /\ proc'[p].err = NoError) =>
            LET item == proc[p].item
                hit  == Matching(store, item.ParentPath, item.Name)
            IN  \A r \in Matching(store', item.ParentPath, item.Name) :
                    IF hit = {}
                    THEN r.size = item.Size /\ r.sha1 = item.Sha1
                    ELSE IF item.Type = EntryObject
                    THEN /\ r.size = Unmarshal(item.Info).info.Size
                         /\ r.sha1 = Unmarshal(item.Info).info.Fingerprint
                    ELSE r.size = 0 /\ r.sha1 = ""]_vars

\* a directory entry that carries a size has been upserted on the key of an
\* object row, and the row's size and sha1 are now 0 and the empty string
C30_Witness ==
    \E p \in Procs :
        /\ proc[p].pc = "UpsertItem_unlock" /\ proc[p].ret = 125
        /\ proc[p].item.Type = EntryDirectory /\ proc[p].item.Size # 0
        /\ \E r \in Matching(store, proc[p].item.ParentPath, proc[p].item.Name) :
            /\ r.updated_at = now /\ r.updated_at > r.created_at
            /\ r.type = EntryObject
            /\ r.size = 0 /\ r.sha1 = ""

\* the key a row has once the columns of map m are written to it
KeyAfter(r, m) ==
    [parent_path |-> IF "parent_path" \in DOMAIN m THEN m.parent_path
                     ELSE r.parent_path,
     name        |-> IF "name" \in DOMAIN m THEN m.name ELSE r.name]

\* the rows of st whose key the update of the row at `name` with m would take
Conflicting(st, name, m) ==
    {o \in Rows(st) \ RowAt(st, name) :
        \E r \in RowAt(st, name) :
            KeyAfter(r, m) = [parent_path |-> o.parent_path, name |-> o.name]}

\* C31: a ModifyItem whose map would give a row the key of another row returns
\* the unique-constraint error (or the error of a store that failed the
\* statement) and leaves the store as it is: both rows stay, the conflicting
\* row is never deleted
C31_ModifyKeyConflict ==
    [][\A p \in Procs :
        (/\ Leaves(p, "ModifyItem_update")
         /\ DOMAIN proc[p].infoMap \subseteq ColumnNames
         /\ Conflicting(store, proc[p].name, proc[p].infoMap) # {}) =>
            /\ proc'[p].err \in {ErrUniqueFailed, ErrStore}
            /\ proc'[p].ret = 162
            /\ store' = store
            /\ RowAt(store, proc[p].name) \subseteq Rows(store')
            /\ Conflicting(store, proc[p].name, proc[p].infoMap) \subseteq Rows(store')]_vars

\* a ModifyItem that renames /a to the name of the row /b is returning the
\* unique-constraint error, and both rows are in the store
C31_Witness ==
    \E p \in Procs :
        /\ proc[p].pc = "ModifyItem_unlock" /\ proc[p].ret = 162
        /\ proc[p].err = ErrUniqueFailed
        /\ proc[p].name = <<"/", "a">>
        /\ proc[p].infoMap = [name |-> <<"b">>]
        /\ RowAt(store, <<"/", "a">>) # {}
        /\ RowAt(store, <<"/", "b">>) # {}

\* both symlink options of the mapper are set: each is held and parses to true
BothLinkOptions(m) ==
    /\ m.links # Unset /\ ParseBool(m.links) = [err |-> NoError, value |-> TRUE]
    /\ m.copy_links # Unset
    /\ ParseBool(m.copy_links) = [err |-> NoError, value |-> TRUE]

\* C32: NewFs of hybridzfs called with both links and copy_links set returns
\* errLinksAndCopyLinks and a nil filesystem, and returns before local.NewFs
\* is called: such a call is never past the check of the options
C32_LinksAndCopyLinks ==
    \A p \in Procs :
        (proc[p].op = "NewFs" /\ BothLinkOptions(proc[p].m)) =>
            /\ proc[p].pc \in {"NewFs_Set", "NewFs_return"}
            /\ proc[p].localFs = 0
            /\ proc[p].f = NilFs
            /\ proc[p].pc = "NewFs_return" =>
                /\ proc[p].err = errLinksAndCopyLinks
                /\ proc[p].ret = 384

\* a NewFs given links = "1" and copy_links = "true" is returning the error
\* with no filesystem and no local filesystem
C32_Witness ==
    \E p \in Procs :
        /\ proc[p].pc = "NewFs_return" /\ proc[p].ret = 384
        /\ proc[p].m = [copy_links |-> "true", links |-> "1"]
        /\ proc[p].err = errLinksAndCopyLinks
        /\ proc[p].f = NilFs /\ proc[p].localFs = 0

\* the rows a list of filter calls is meant to select: FilterParentPath
\* compares parent_path, FilterName compares name
Meant(r, call) ==
    IF call.fn = "FilterParentPath"
    THEN Compare(call.operator, r.parent_path, call.arg)
    ELSE Compare(call.operator, r.name, call.arg)

\* C33: a query restricted by the scopes of FilterParentPath(path, operator)
\* and FilterName(name, operator) selects the rows whose parent_path column
\* compares with path and whose name column compares with name
C33_FilterColumns ==
    \A p \in Procs :
        proc[p].pc = "basicFilter_return" =>
            proc[p].out =
                Restrict(store.rows,
                         {r \in Rows(store) :
                            \A i \in 1..Len(proc[p].filters) :
                                Meant(r, proc[p].filters[i])})

====
